---- MODULE Spec2Model ----
(***************************************************************************)
(* GPRET token ledger (contracts/GPRET.sol), its governance and city index *)
(* and the zero-reward staking ledger (contracts/GPRETStaking.sol).        *)
(*                                                                         *)
(* Every external call is one atomic step (an EVM transaction): a call     *)
(* that reverts changes nothing but lastCall, which records the call and   *)
(* its revert reason ("ok" on success).                                    *)
(*                                                                         *)
(* Scaling: uint256 quantities do not fit the checker's integers, so token *)
(* amounts are counted in lots, block.timestamp in days, and city prices   *)
(* and weights in units of 10^4.  All arithmetic is the code's arithmetic. *)
(***************************************************************************)
EXTENDS Integers, Sequences, FiniteSets, TLC

\* ---------------------------------------------------------------- units
\* Solidity's time unit `days`, in seconds
Day == 86400

\* ------------------------------------------------------------ constants
\* Token amounts are whole tokens (the 18 decimals are dropped)
TOTAL_SUPPLY == 1000000000
PROPOSAL_THRESHOLD == 1000
VOTING_PERIOD == 7 * Day
MIN_VOTING_DELAY == 1 * Day
\* City prices are in the code's units, city weights in units of 10^4
BASE_INDEX == 1000000
MIN_STAKING_PERIOD == 7 * Day
MAX_STAKING_PERIOD == 365 * Day
MULTIPLIER_BASE == 100
MIN_MULTIPLIER == 100
MAX_MULTIPLIER == 500

\* --------------------------------------------------------------- bounds
MaxFloat == 2000
MaxStakes == 2
MaxProposals == 2

\* ------------------------------------------------------------ addresses
Owner == "owner"
StakingAddr == "staking"
Accounts == {"owner", "user1", "user2"}
Holders == Accounts \cup {StakingAddr}
NoAddr == "none"

VARIABLES
    balances,             \* ERC20 _balances
    allowances,           \* ERC20 _allowances[owner][spender]
    totalSupply,          \* ERC20 _totalSupply
    paused,               \* Pausable._paused of the token
    now,                  \* block.timestamp
    cities,               \* GPRET.cities
    globalPriceIndex,     \* GPRET.globalPriceIndex
    oracleAddress,        \* GPRET.oracleAddress
    lastUpdateTimestamp,  \* GPRET.lastUpdateTimestamp
    proposals,            \* GPRET.proposals (with each proposal's hasVoted)
    proposalCount,        \* GPRET.proposalCount
    userStakes,           \* GPRETStaking.userStakes
    userTotalStaked,      \* GPRETStaking.userTotalStaked
    userGovernanceWeight, \* GPRETStaking.userGovernanceWeight
    totalStaked,          \* GPRETStaking.totalStaked
    totalStakers,         \* GPRETStaking.totalStakers
    periodMultipliers,    \* GPRETStaking.periodMultipliers
    stakingPaused,        \* Pausable._paused of the staking contract
    running,              \* the `results` of each collectAllPrices in flight
    priceHistory,         \* GPRETOracleCollector.priceHistory (in memory)
    latestFile,           \* oracle-data/latest.json
    historyFile,          \* oracle-data/price-history.json
    lastResults,          \* what the last finished collectAllPrices returned
    startedAt,            \* the instant the server process was started
    realEstatePriceIndex, \* time-gated GPRET: realEstatePriceIndex
    lastPriceUpdate,      \* time-gated GPRET: lastPriceUpdate
    priceOracle,          \* time-gated GPRET: priceOracle
    cityData,             \* time-gated GPRET: cities
    activeCityIds,        \* time-gated GPRET: activeCityIds
    proposalCounter,      \* time-gated GPRET: proposalCounter
    gatedProposals,       \* time-gated GPRET: proposals (with hasVoted)
    lastCall              \* the last external call and its outcome

tokenVars == <<balances, allowances, totalSupply, paused>>
cityVars == <<cities, globalPriceIndex, oracleAddress, lastUpdateTimestamp>>
govVars == <<proposals, proposalCount>>
stakingVars == <<userStakes, userTotalStaked, userGovernanceWeight,
                 totalStaked, totalStakers, periodMultipliers, stakingPaused>>
collectorVars == <<running, priceHistory, latestFile, historyFile,
                   lastResults, startedAt>>
gatedVars == <<realEstatePriceIndex, lastPriceUpdate, priceOracle, cityData,
               activeCityIds>>
gatedGovVars == <<proposalCounter, gatedProposals>>
vars == <<balances, allowances, totalSupply, paused, now,
          cities, globalPriceIndex, oracleAddress, lastUpdateTimestamp,
          proposals, proposalCount,
          userStakes, userTotalStaked, userGovernanceWeight,
          totalStaked, totalStakers, periodMultipliers, stakingPaused,
          running, priceHistory, latestFile, historyFile, lastResults,
          startedAt,
          realEstatePriceIndex, lastPriceUpdate, priceOracle, cityData,
          activeCityIds, proposalCounter, gatedProposals,
          lastCall>>

\* What an operation of one component leaves alone outside that component
outsideToken == <<now, cityVars, govVars, stakingVars, collectorVars,
                  gatedVars, gatedGovVars>>
outsideCity == <<tokenVars, govVars, stakingVars, collectorVars, gatedVars,
                   gatedGovVars>>
outsideGov == <<tokenVars, cityVars, stakingVars, collectorVars, gatedVars,
                   gatedGovVars>>
outsideStaking == <<totalSupply, paused, cityVars, govVars, collectorVars,
                    gatedVars, gatedGovVars>>
outsideCollector == <<tokenVars, cityVars, govVars, stakingVars, gatedVars,
                   gatedGovVars>>
outsideGated == <<now, tokenVars, cityVars, govVars, stakingVars,
                  collectorVars, gatedGovVars>>

\* A call record: operation, msg.sender, up to two address arguments (a1, a2;
\* NoAddr when unused), up to two numeric arguments (x, y; 0 when unused) and
\* the outcome ("ok" or the revert reason).
Call(op, caller, a1, a2, x, y, result) ==
    [op |-> op, caller |-> caller, a1 |-> a1, a2 |-> a2, x |-> x, y |-> y,
     result |-> result]

RECURSIVE SumOver(_, _)
SumOver(f, S) ==
    IF S = {} THEN 0
    ELSE LET e == CHOOSE e \in S : TRUE IN f[e] + SumOver(f, S \ {e})

\* -----------------------------------------------------------------
\* Token ledger: ERC20 + Pausable as composed by GPRET
\* -----------------------------------------------------------------

\* A ledger that keeps one token of every non-zero transfer as a fee
MoveTokens_Fee(bal, from, to, value) ==
    [[bal EXCEPT ![from] = @ - value]
          EXCEPT ![to] = @ + (IF value > 0 THEN value - 1 ELSE 0)]

\* ERC20._update on two non-zero addresses: debit, then credit
MoveTokens(bal, from, to, value) ==
    [[bal EXCEPT ![from] = @ - value] EXCEPT ![to] = @ + value]

\* A ledger update that ignores the emergency halt
UpdateError_NoPauseCheck(from, value) ==
    IF balances[from] < value THEN "ERC20InsufficientBalance"
    ELSE "ok"

\* GPRET._update: whenNotPaused, then ERC20._update's balance check
UpdateError(from, value) ==
    IF paused THEN "EnforcedPause"
    ELSE IF balances[from] < value THEN "ERC20InsufficientBalance"
    ELSE "ok"

\* ERC20.transferFrom: _spendAllowance, then _transfer
TransferFromError(spender, from, value) ==
    IF allowances[from][spender] < value THEN "ERC20InsufficientAllowance"
    ELSE UpdateError(from, value)

transfer(caller, to, value) ==
    LET err == UpdateError(caller, value) IN
    /\ lastCall' = Call("transfer", caller, to, NoAddr, value, 0, err)
    /\ IF err = "ok"
       THEN balances' = MoveTokens(balances, caller, to, value)
       ELSE UNCHANGED balances
    /\ UNCHANGED <<allowances, totalSupply, paused, outsideToken>>

approve(caller, spender, value) ==
    /\ lastCall' = Call("approve", caller, spender, NoAddr, value, 0, "ok")
    /\ allowances' = [allowances EXCEPT ![caller][spender] = value]
    /\ UNCHANGED <<balances, totalSupply, paused, outsideToken>>

transferFrom(caller, from, to, value) ==
    LET err == TransferFromError(caller, from, value) IN
    /\ lastCall' = Call("transferFrom", caller, from, to, value, 0, err)
    /\ IF err = "ok"
       THEN /\ balances' = MoveTokens(balances, from, to, value)
            /\ allowances' = [allowances EXCEPT ![from][caller] = @ - value]
       ELSE UNCHANGED <<balances, allowances>>
    /\ UNCHANGED <<totalSupply, paused, outsideToken>>

\* A burn that leaves the recorded supply as it was
burn_KeepsSupply(caller, value) ==
    LET err == UpdateError(caller, value) IN
    /\ lastCall' = Call("burn", caller, NoAddr, NoAddr, value, 0, err)
    /\ IF err = "ok"
       THEN /\ balances' = [balances EXCEPT ![caller] = @ - value]
            /\ totalSupply' = totalSupply
       ELSE UNCHANGED <<balances, totalSupply>>
    /\ UNCHANGED <<allowances, paused, outsideToken>>

\* ERC20Burnable.burn: _burn(msg.sender, value) -> _update(from, 0, value)
burn(caller, value) ==
    LET err == UpdateError(caller, value) IN
    /\ lastCall' = Call("burn", caller, NoAddr, NoAddr, value, 0, err)
    /\ IF err = "ok"
       THEN /\ balances' = [balances EXCEPT ![caller] = @ - value]
            /\ totalSupply' = totalSupply - value
       ELSE UNCHANGED <<balances, totalSupply>>
    /\ UNCHANGED <<allowances, paused, outsideToken>>

PauseError(caller) ==
    IF caller # Owner THEN "OwnableUnauthorizedAccount"
    ELSE IF paused THEN "EnforcedPause"
    ELSE "ok"

pause(caller) ==
    LET err == PauseError(caller) IN
    /\ lastCall' = Call("pause", caller, NoAddr, NoAddr, 0, 0, err)
    /\ paused' = IF err = "ok" THEN TRUE ELSE paused
    /\ UNCHANGED <<balances, allowances, totalSupply, outsideToken>>

UnpauseError(caller) ==
    IF caller # Owner THEN "OwnableUnauthorizedAccount"
    ELSE IF ~paused THEN "ExpectedPause"
    ELSE "ok"

unpause(caller) ==
    LET err == UnpauseError(caller) IN
    /\ lastCall' = Call("unpause", caller, NoAddr, NoAddr, 0, 0, err)
    /\ paused' = IF err = "ok" THEN FALSE ELSE paused
    /\ UNCHANGED <<balances, allowances, totalSupply, outsideToken>>

\* The passage of block time between transactions: the next transaction is
\* mined at the later instant t
advanceTime(t) ==
    /\ t > now
    /\ now' = t
    /\ lastCall' = Call("advanceTime", NoAddr, NoAddr, NoAddr, t, 0, "ok")
    /\ UNCHANGED <<tokenVars, cityVars, govVars, stakingVars, collectorVars,
                   gatedVars, gatedGovVars>>

\* -----------------------------------------------------------------
\* Staking ledger: GPRETStaking
\* -----------------------------------------------------------------

\* The keys of periodMultipliers the model uses (every other key stays 0)
PeriodKeys == {6 * Day, 7 * Day, 15 * Day, 30 * Day, 90 * Day, 180 * Day,
               365 * Day, 366 * Day}

\* periodMultipliers as the constructor sets it
InitialMultipliers ==
    [p \in PeriodKeys |->
        CASE p = 7 * Day -> 100
          [] p = 30 * Day -> 110
          [] p = 90 * Day -> 125
          [] p = 180 * Day -> 150
          [] p = 365 * Day -> 200
          [] OTHER -> 0]

\* A weight rounded up instead of down
GovernanceWeightOf_RoundUp(amount, multiplier) ==
    (amount * multiplier + MULTIPLIER_BASE - 1) \div MULTIPLIER_BASE

\* stake: (amount * periodMultipliers[lockPeriod]) / 100
GovernanceWeightOf(amount, multiplier) ==
    (amount * multiplier) \div MULTIPLIER_BASE

\* The entry stake pushes
NewStake(amount, lockPeriod) ==
    [amount |-> amount,
     stakingTime |-> now,
     lockPeriod |-> lockPeriod,
     governanceWeight |-> GovernanceWeightOf(amount, periodMultipliers[lockPeriod]),
     isActive |-> TRUE]

\* Stake indices are 0-based in the code, sequences 1-based here
StakeAt(user, stakeIndex) == userStakes[user][stakeIndex + 1]

\* A stake that accepts a lock period without a configured multiplier
StakeError_NoMultiplierCheck(caller, amount, lockPeriod) ==
    IF stakingPaused THEN "Pausable: paused"
    ELSE IF ~(amount > 0) THEN "GPRETStaking: Amount must be greater than 0"
    ELSE IF ~(lockPeriod >= MIN_STAKING_PERIOD /\ lockPeriod <= MAX_STAKING_PERIOD)
        THEN "GPRETStaking: Invalid lock period"
    ELSE TransferFromError(StakingAddr, caller, amount)

StakeError(caller, amount, lockPeriod) ==
    IF stakingPaused THEN "Pausable: paused"
    ELSE IF ~(amount > 0) THEN "GPRETStaking: Amount must be greater than 0"
    ELSE IF ~(lockPeriod >= MIN_STAKING_PERIOD /\ lockPeriod <= MAX_STAKING_PERIOD)
        THEN "GPRETStaking: Invalid lock period"
    ELSE IF ~(periodMultipliers[lockPeriod] > 0)
        THEN "GPRETStaking: Unsupported lock period"
    ELSE TransferFromError(StakingAddr, caller, amount)

stake(caller, amount, lockPeriod) ==
    LET err == StakeError(caller, amount, lockPeriod)
        entry == NewStake(amount, lockPeriod)
    IN
    /\ Len(userStakes[caller]) < MaxStakes
    /\ lastCall' = Call("stake", caller, NoAddr, NoAddr, amount, lockPeriod, err)
    /\ IF err = "ok"
       THEN /\ balances' = MoveTokens(balances, caller, StakingAddr, amount)
            /\ allowances' = [allowances EXCEPT ![caller][StakingAddr] = @ - amount]
            /\ userStakes' = [userStakes EXCEPT ![caller] = Append(@, entry)]
            /\ totalStakers' = IF userTotalStaked[caller] = 0
                               THEN totalStakers + 1 ELSE totalStakers
            /\ userTotalStaked' = [userTotalStaked EXCEPT ![caller] = @ + amount]
            /\ userGovernanceWeight' =
                   [userGovernanceWeight EXCEPT ![caller] = @ + entry.governanceWeight]
            /\ totalStaked' = totalStaked + amount
       ELSE UNCHANGED <<balances, allowances, userStakes, totalStakers,
                        userTotalStaked, userGovernanceWeight, totalStaked>>
    /\ UNCHANGED <<periodMultipliers, stakingPaused, now, outsideStaking>>

\* An index check that does not look at the entry's active flag
ValidStakeIndexError_NoActiveCheck(user, stakeIndex) ==
    IF ~(stakeIndex < Len(userStakes[user])) THEN "GPRETStaking: Invalid stake index"
    ELSE "ok"

\* modifier validStakeIndex
ValidStakeIndexError(user, stakeIndex) ==
    IF ~(stakeIndex < Len(userStakes[user])) THEN "GPRETStaking: Invalid stake index"
    ELSE IF ~StakeAt(user, stakeIndex).isActive THEN "GPRETStaking: Stake not active"
    ELSE "ok"

\* The bookkeeping and the payout shared by unstake and emergencyUnstake:
\* checked subtractions (Solidity 0.8), then safeTransfer(user, amount)
PayoutError(user, stakeIndex) ==
    LET st == StakeAt(user, stakeIndex) IN
    IF userTotalStaked[user] < st.amount
       \/ userGovernanceWeight[user] < st.governanceWeight
       \/ totalStaked < st.amount
       \/ (userTotalStaked[user] = st.amount /\ totalStakers = 0)
    THEN "Panic(0x11)"
    ELSE UpdateError(StakingAddr, st.amount)

\* A payout that takes the weight at the multiplier configured now, not the
\* weight stored in the entry
Payout_CurrentMultiplier(user, stakeIndex) ==
    LET st == StakeAt(user, stakeIndex)
        w == (st.amount * periodMultipliers[st.lockPeriod]) \div MULTIPLIER_BASE
    IN
    /\ userStakes' = [userStakes EXCEPT ![user][stakeIndex + 1].isActive = FALSE]
    /\ userTotalStaked' = [userTotalStaked EXCEPT ![user] = @ - st.amount]
    /\ userGovernanceWeight' = [userGovernanceWeight EXCEPT ![user] = @ - w]
    /\ totalStaked' = totalStaked - st.amount
    /\ totalStakers' = IF userTotalStaked[user] - st.amount = 0
                       THEN totalStakers - 1 ELSE totalStakers
    /\ balances' = MoveTokens(balances, StakingAddr, user, st.amount)

\* A payout that never decrements the staker count
Payout_KeepsStakers(user, stakeIndex) ==
    LET st == StakeAt(user, stakeIndex) IN
    /\ userStakes' = [userStakes EXCEPT ![user][stakeIndex + 1].isActive = FALSE]
    /\ userTotalStaked' = [userTotalStaked EXCEPT ![user] = @ - st.amount]
    /\ userGovernanceWeight' =
           [userGovernanceWeight EXCEPT ![user] = @ - st.governanceWeight]
    /\ totalStaked' = totalStaked - st.amount
    /\ totalStakers' = totalStakers
    /\ balances' = MoveTokens(balances, StakingAddr, user, st.amount)

\* A payout that forgets to decrement the global total
Payout_KeepsTotalStaked(user, stakeIndex) ==
    LET st == StakeAt(user, stakeIndex) IN
    /\ userStakes' = [userStakes EXCEPT ![user][stakeIndex + 1].isActive = FALSE]
    /\ userTotalStaked' = [userTotalStaked EXCEPT ![user] = @ - st.amount]
    /\ userGovernanceWeight' =
           [userGovernanceWeight EXCEPT ![user] = @ - st.governanceWeight]
    /\ totalStaked' = totalStaked
    /\ totalStakers' = IF userTotalStaked[user] - st.amount = 0
                       THEN totalStakers - 1 ELSE totalStakers
    /\ balances' = MoveTokens(balances, StakingAddr, user, st.amount)

\* A payout that returns the governance weight instead of the staked amount
Payout_PaysWeight(user, stakeIndex) ==
    LET st == StakeAt(user, stakeIndex) IN
    /\ userStakes' = [userStakes EXCEPT ![user][stakeIndex + 1].isActive = FALSE]
    /\ userTotalStaked' = [userTotalStaked EXCEPT ![user] = @ - st.amount]
    /\ userGovernanceWeight' =
           [userGovernanceWeight EXCEPT ![user] = @ - st.governanceWeight]
    /\ totalStaked' = totalStaked - st.amount
    /\ totalStakers' = IF userTotalStaked[user] - st.amount = 0
                       THEN totalStakers - 1 ELSE totalStakers
    /\ balances' = MoveTokens(balances, StakingAddr, user, st.governanceWeight)

\* A payout that deletes the withdrawn entry from the list
Payout_DeletesEntry(user, stakeIndex) ==
    LET st == StakeAt(user, stakeIndex) IN
    /\ userStakes' = [userStakes EXCEPT ![user] =
                         SubSeq(@, 1, stakeIndex)
                             \o SubSeq(@, stakeIndex + 2, Len(@))]
    /\ userTotalStaked' = [userTotalStaked EXCEPT ![user] = @ - st.amount]
    /\ userGovernanceWeight' =
           [userGovernanceWeight EXCEPT ![user] = @ - st.governanceWeight]
    /\ totalStaked' = totalStaked - st.amount
    /\ totalStakers' = IF userTotalStaked[user] - st.amount = 0
                       THEN totalStakers - 1 ELSE totalStakers
    /\ balances' = MoveTokens(balances, StakingAddr, user, st.amount)

Payout(user, stakeIndex) ==
    LET st == StakeAt(user, stakeIndex) IN
    /\ userStakes' = [userStakes EXCEPT ![user][stakeIndex + 1].isActive = FALSE]
    /\ userTotalStaked' = [userTotalStaked EXCEPT ![user] = @ - st.amount]
    /\ userGovernanceWeight' =
           [userGovernanceWeight EXCEPT ![user] = @ - st.governanceWeight]
    /\ totalStaked' = totalStaked - st.amount
    /\ totalStakers' = IF userTotalStaked[user] - st.amount = 0
                       THEN totalStakers - 1 ELSE totalStakers
    /\ balances' = MoveTokens(balances, StakingAddr, user, st.amount)

\* A lock that opens only strictly after the unlock instant
LockExpired_Strict(st) == now > st.stakingTime + st.lockPeriod

LockExpired(st) == now >= st.stakingTime + st.lockPeriod

UnstakeError(caller, stakeIndex) ==
    IF ValidStakeIndexError(caller, stakeIndex) # "ok"
        THEN ValidStakeIndexError(caller, stakeIndex)
    ELSE IF ~LockExpired(StakeAt(caller, stakeIndex))
        THEN "GPRETStaking: Lock period not expired"
    ELSE PayoutError(caller, stakeIndex)

unstake(caller, stakeIndex) ==
    LET err == UnstakeError(caller, stakeIndex) IN
    /\ lastCall' = Call("unstake", caller, NoAddr, NoAddr, stakeIndex, 0, err)
    /\ IF err = "ok"
       THEN Payout(caller, stakeIndex)
       ELSE UNCHANGED <<userStakes, userTotalStaked, userGovernanceWeight,
                        totalStaked, totalStakers, balances>>
    /\ UNCHANGED <<allowances, periodMultipliers, stakingPaused, now,
                   outsideStaking>>

\* An emergency withdrawal open to every caller
EmergencyUnstakeError_AnyCaller(caller, user, stakeIndex) ==
    IF ValidStakeIndexError(user, stakeIndex) # "ok"
        THEN ValidStakeIndexError(user, stakeIndex)
    ELSE PayoutError(user, stakeIndex)

EmergencyUnstakeError(caller, user, stakeIndex) ==
    IF caller # Owner THEN "Ownable: caller is not the owner"
    ELSE IF ValidStakeIndexError(user, stakeIndex) # "ok"
        THEN ValidStakeIndexError(user, stakeIndex)
    ELSE PayoutError(user, stakeIndex)

\* An emergency withdrawal that pays the caller instead of the staker
emergencyUnstake_PaysCaller(caller, user, stakeIndex) ==
    LET err == EmergencyUnstakeError(caller, user, stakeIndex)
        st == StakeAt(user, stakeIndex)
    IN
    /\ lastCall' = Call("emergencyUnstake", caller, user, NoAddr, stakeIndex, 0, err)
    /\ IF err = "ok"
       THEN /\ userStakes' = [userStakes EXCEPT ![user][stakeIndex + 1].isActive = FALSE]
            /\ userTotalStaked' = [userTotalStaked EXCEPT ![user] = @ - st.amount]
            /\ userGovernanceWeight' =
                   [userGovernanceWeight EXCEPT ![user] = @ - st.governanceWeight]
            /\ totalStaked' = totalStaked - st.amount
            /\ totalStakers' = IF userTotalStaked[user] - st.amount = 0
                               THEN totalStakers - 1 ELSE totalStakers
            /\ balances' = MoveTokens(balances, StakingAddr, caller, st.amount)
       ELSE UNCHANGED <<userStakes, userTotalStaked, userGovernanceWeight,
                        totalStaked, totalStakers, balances>>
    /\ UNCHANGED <<allowances, periodMultipliers, stakingPaused, now,
                   outsideStaking>>

emergencyUnstake(caller, user, stakeIndex) ==
    LET err == EmergencyUnstakeError(caller, user, stakeIndex) IN
    /\ lastCall' = Call("emergencyUnstake", caller, user, NoAddr, stakeIndex, 0, err)
    /\ IF err = "ok"
       THEN Payout(user, stakeIndex)
       ELSE UNCHANGED <<userStakes, userTotalStaked, userGovernanceWeight,
                        totalStaked, totalStakers, balances>>
    /\ UNCHANGED <<allowances, periodMultipliers, stakingPaused, now,
                   outsideStaking>>

\* A multiplier update that does not bound the multiplier
UpdatePeriodMultiplierError_AnyMultiplier(caller, period, multiplier) ==
    IF caller # Owner THEN "Ownable: caller is not the owner"
    ELSE IF ~(period >= MIN_STAKING_PERIOD /\ period <= MAX_STAKING_PERIOD)
        THEN "GPRETStaking: Invalid period"
    ELSE "ok"

UpdatePeriodMultiplierError(caller, period, multiplier) ==
    IF caller # Owner THEN "Ownable: caller is not the owner"
    ELSE IF ~(period >= MIN_STAKING_PERIOD /\ period <= MAX_STAKING_PERIOD)
        THEN "GPRETStaking: Invalid period"
    ELSE IF ~(multiplier >= MIN_MULTIPLIER /\ multiplier <= MAX_MULTIPLIER)
        THEN "GPRETStaking: Invalid multiplier"
    ELSE "ok"

\* A multiplier change that re-rates the entries already staked for the
\* period
updatePeriodMultiplier_Retroactive(caller, period, multiplier) ==
    LET err == UpdatePeriodMultiplierError(caller, period, multiplier) IN
    /\ lastCall' = Call("updatePeriodMultiplier", caller, NoAddr, NoAddr,
                        period, multiplier, err)
    /\ periodMultipliers' = IF err = "ok"
                            THEN [periodMultipliers EXCEPT ![period] = multiplier]
                            ELSE periodMultipliers
    /\ userStakes' =
           IF err = "ok"
           THEN [u \in Accounts |->
                   [j \in 1 .. Len(userStakes[u]) |->
                       IF userStakes[u][j].lockPeriod = period
                       THEN [userStakes[u][j] EXCEPT !.governanceWeight =
                                (userStakes[u][j].amount * multiplier)
                                    \div MULTIPLIER_BASE]
                       ELSE userStakes[u][j]]]
           ELSE userStakes
    /\ UNCHANGED <<userTotalStaked, userGovernanceWeight, totalStaked,
                   totalStakers, stakingPaused, balances, allowances, now,
                   outsideStaking>>

updatePeriodMultiplier(caller, period, multiplier) ==
    LET err == UpdatePeriodMultiplierError(caller, period, multiplier) IN
    /\ lastCall' = Call("updatePeriodMultiplier", caller, NoAddr, NoAddr,
                        period, multiplier, err)
    /\ periodMultipliers' = IF err = "ok"
                            THEN [periodMultipliers EXCEPT ![period] = multiplier]
                            ELSE periodMultipliers
    /\ UNCHANGED <<userStakes, userTotalStaked, userGovernanceWeight, totalStaked,
                   totalStakers, stakingPaused, balances, allowances, now,
                   outsideStaking>>

StakingPauseError(caller) ==
    IF caller # Owner THEN "Ownable: caller is not the owner"
    ELSE IF stakingPaused THEN "Pausable: paused"
    ELSE "ok"

staking_pause(caller) ==
    LET err == StakingPauseError(caller) IN
    /\ lastCall' = Call("staking.pause", caller, NoAddr, NoAddr, 0, 0, err)
    /\ stakingPaused' = IF err = "ok" THEN TRUE ELSE stakingPaused
    /\ UNCHANGED <<userStakes, userTotalStaked, userGovernanceWeight, totalStaked,
                   totalStakers, periodMultipliers, balances, allowances, now,
                   outsideStaking>>

StakingUnpauseError(caller) ==
    IF caller # Owner THEN "Ownable: caller is not the owner"
    ELSE IF ~stakingPaused THEN "Pausable: not paused"
    ELSE "ok"

staking_unpause(caller) ==
    LET err == StakingUnpauseError(caller) IN
    /\ lastCall' = Call("staking.unpause", caller, NoAddr, NoAddr, 0, 0, err)
    /\ stakingPaused' = IF err = "ok" THEN FALSE ELSE stakingPaused
    /\ UNCHANGED <<userStakes, userTotalStaked, userGovernanceWeight, totalStaked,
                   totalStakers, periodMultipliers, balances, allowances, now,
                   outsideStaking>>

\* -----------------------------------------------------------------
\* City price index: GPRET
\* -----------------------------------------------------------------

\* _initializeCities: the weights of the ten seeded cities, in model units
InitialWeights == <<20, 15, 12, 10, 8, 8, 7, 7, 7, 6>>

\* cityCount after the constructor; GPRET has no operation that adds a city
cityCount == Len(InitialWeights)

CityIds == 0 .. cityCount - 1

\* _addCity as the constructor runs it at deployment time 0
InitialCities ==
    [i \in CityIds |->
        [priceIndex |-> BASE_INDEX,
         weight |-> InitialWeights[i + 1],
         isActive |-> TRUE,
         lastUpdated |-> 0]]

ActiveCities(cs) == {i \in CityIds : cs[i].isActive}

\* _updateGlobalIndex's two accumulators over the active cities
WeightedSum(cs) ==
    SumOver([i \in CityIds |-> cs[i].priceIndex * cs[i].weight], ActiveCities(cs))

TotalWeight(cs) ==
    SumOver([i \in CityIds |-> cs[i].weight], ActiveCities(cs))

\* the guard of _updateGlobalIndex's assignment
IndexRecomputed(cs) == TotalWeight(cs) > 0

\* An index that is the plain mean of the active prices
UpdateGlobalIndex_Unweighted(cs) ==
    IF IndexRecomputed(cs)
    THEN <<SumOver([i \in CityIds |-> cs[i].priceIndex], ActiveCities(cs))
              \div Cardinality(ActiveCities(cs)), now>>
    ELSE <<globalPriceIndex, lastUpdateTimestamp>>

\* An index that is reset when no city is active
UpdateGlobalIndex_ResetWhenEmpty(cs) ==
    IF IndexRecomputed(cs)
    THEN <<WeightedSum(cs) \div TotalWeight(cs), now>>
    ELSE <<0, now>>

\* _updateGlobalIndex on the city table cs: the new <<index, timestamp>>
UpdateGlobalIndex(cs) ==
    IF IndexRecomputed(cs)
    THEN <<WeightedSum(cs) \div TotalWeight(cs), now>>
    ELSE <<globalPriceIndex, lastUpdateTimestamp>>

SetOracleAddressError(caller, oracle) ==
    IF caller # Owner THEN "OwnableUnauthorizedAccount"
    ELSE IF ~(oracle # NoAddr) THEN "Invalid oracle address"
    ELSE "ok"

setOracleAddress(caller, oracle) ==
    LET err == SetOracleAddressError(caller, oracle) IN
    /\ lastCall' = Call("setOracleAddress", caller, oracle, NoAddr, 0, 0, err)
    /\ oracleAddress' = IF err = "ok" THEN oracle ELSE oracleAddress
    /\ UNCHANGED <<cities, globalPriceIndex, lastUpdateTimestamp, now, outsideCity>>

\* A price update open to every caller
UpdateCityPriceError_AnyCaller(caller, cityId, newPriceIndex) ==
    IF ~(cityId < cityCount) THEN "Invalid city ID"
    ELSE IF ~cities[cityId].isActive THEN "City not active"
    ELSE IF ~(newPriceIndex > 0) THEN "Invalid price index"
    ELSE "ok"

UpdateCityPriceError(caller, cityId, newPriceIndex) ==
    IF ~(caller = oracleAddress) THEN "Only oracle can update prices"
    ELSE IF ~(cityId < cityCount) THEN "Invalid city ID"
    ELSE IF ~cities[cityId].isActive THEN "City not active"
    ELSE IF ~(newPriceIndex > 0) THEN "Invalid price index"
    ELSE "ok"

updateCityPrice(caller, cityId, newPriceIndex) ==
    LET err == UpdateCityPriceError(caller, cityId, newPriceIndex)
        cs == [cities EXCEPT ![cityId].priceIndex = newPriceIndex,
                             ![cityId].lastUpdated = now]
    IN
    /\ lastCall' = Call("updateCityPrice", caller, NoAddr, NoAddr, cityId,
                        newPriceIndex, err)
    /\ IF err = "ok"
       THEN /\ cities' = cs
            /\ globalPriceIndex' = UpdateGlobalIndex(cs)[1]
            /\ lastUpdateTimestamp' = UpdateGlobalIndex(cs)[2]
       ELSE UNCHANGED <<cities, globalPriceIndex, lastUpdateTimestamp>>
    /\ UNCHANGED <<oracleAddress, now, outsideCity>>

UpdateCityWeightError(caller, cityId, newWeight) ==
    IF caller # Owner THEN "OwnableUnauthorizedAccount"
    ELSE IF ~(cityId < cityCount) THEN "Invalid city ID"
    ELSE IF ~(newWeight > 0) THEN "Invalid weight"
    ELSE "ok"

updateCityWeight(caller, cityId, newWeight) ==
    LET err == UpdateCityWeightError(caller, cityId, newWeight)
        cs == [cities EXCEPT ![cityId].weight = newWeight]
    IN
    /\ lastCall' = Call("updateCityWeight", caller, NoAddr, NoAddr, cityId,
                        newWeight, err)
    /\ IF err = "ok"
       THEN /\ cities' = cs
            /\ globalPriceIndex' = UpdateGlobalIndex(cs)[1]
            /\ lastUpdateTimestamp' = UpdateGlobalIndex(cs)[2]
       ELSE UNCHANGED <<cities, globalPriceIndex, lastUpdateTimestamp>>
    /\ UNCHANGED <<oracleAddress, now, outsideCity>>

ToggleCityStatusError(caller, cityId) ==
    IF caller # Owner THEN "OwnableUnauthorizedAccount"
    ELSE IF ~(cityId < cityCount) THEN "Invalid city ID"
    ELSE "ok"

toggleCityStatus(caller, cityId) ==
    LET err == ToggleCityStatusError(caller, cityId)
        cs == [cities EXCEPT ![cityId].isActive = ~@]
    IN
    /\ lastCall' = Call("toggleCityStatus", caller, NoAddr, NoAddr, cityId, 0, err)
    /\ IF err = "ok"
       THEN /\ cities' = cs
            /\ globalPriceIndex' = UpdateGlobalIndex(cs)[1]
            /\ lastUpdateTimestamp' = UpdateGlobalIndex(cs)[2]
       ELSE UNCHANGED <<cities, globalPriceIndex, lastUpdateTimestamp>>
    /\ UNCHANGED <<oracleAddress, now, outsideCity>>

\* -----------------------------------------------------------------
\* Governance: GPRET
\* -----------------------------------------------------------------

ProposalIds == 0 .. MaxProposals - 1

\* An unwritten slot of the proposals mapping
EmptyProposal ==
    [id |-> 0, proposer |-> NoAddr, description |-> "", forVotes |-> 0,
     againstVotes |-> 0, startTime |-> 0, endTime |-> 0, executed |-> FALSE,
     passed |-> FALSE, hasVoted |-> {}]

CreateProposalError(caller, description) ==
    IF ~(balances[caller] >= PROPOSAL_THRESHOLD) THEN "Insufficient tokens"
    ELSE IF ~(description # "") THEN "Empty description"
    ELSE "ok"

\* A proposal that opens for voting at once
createProposal_NoDelay(caller, description) ==
    LET err == CreateProposalError(caller, description)
        proposalId == proposalCount
    IN
    /\ proposalCount < MaxProposals
    /\ lastCall' = Call("createProposal", caller, NoAddr, NoAddr,
                        IF description = "" THEN 0 ELSE 1,
                        IF err = "ok" THEN proposalId ELSE 0, err)
    /\ IF err = "ok"
       THEN /\ proposalCount' = proposalCount + 1
            /\ proposals' = [proposals EXCEPT ![proposalId] =
                   [@ EXCEPT !.id = proposalId,
                             !.proposer = caller,
                             !.description = description,
                             !.startTime = now,
                             !.endTime = now + VOTING_PERIOD,
                             !.executed = FALSE,
                             !.passed = FALSE]]
       ELSE UNCHANGED <<proposals, proposalCount>>
    /\ UNCHANGED <<now, outsideGov>>

createProposal(caller, description) ==
    LET err == CreateProposalError(caller, description)
        proposalId == proposalCount
    IN
    /\ proposalCount < MaxProposals
    /\ lastCall' = Call("createProposal", caller, NoAddr, NoAddr,
                        IF description = "" THEN 0 ELSE 1,
                        IF err = "ok" THEN proposalId ELSE 0, err)
    /\ IF err = "ok"
       THEN /\ proposalCount' = proposalCount + 1
            /\ proposals' = [proposals EXCEPT ![proposalId] =
                   [@ EXCEPT !.id = proposalId,
                             !.proposer = caller,
                             !.description = description,
                             !.startTime = now + MIN_VOTING_DELAY,
                             !.endTime = now + MIN_VOTING_DELAY + VOTING_PERIOD,
                             !.executed = FALSE,
                             !.passed = FALSE]]
       ELSE UNCHANGED <<proposals, proposalCount>>
    /\ UNCHANGED <<now, outsideGov>>

\* A vote weight that counts the staking ledger's governance weight as well
VoteWeight_WithStake(caller) == balances[caller] + userGovernanceWeight[caller]

\* A vote weight fixed by the distribution at deployment
VoteWeight_AtDeployment(caller) == IF caller = Owner THEN TOTAL_SUPPLY ELSE 0

\* vote: uint256 weight = balanceOf(msg.sender)
VoteWeight(caller) == balances[caller]

\* A vote that is blocked while the token is paused
VoteError_WhenNotPaused(caller, proposalId) ==
    IF paused THEN "EnforcedPause"
    ELSE IF ~(proposalId < proposalCount) THEN "Invalid proposal"
    ELSE IF ~(now >= proposals[proposalId].startTime) THEN "Voting not started"
    ELSE IF ~(now <= proposals[proposalId].endTime) THEN "Voting ended"
    ELSE IF caller \in proposals[proposalId].hasVoted THEN "Already voted"
    ELSE IF proposals[proposalId].executed THEN "Proposal executed"
    ELSE IF ~(VoteWeight(caller) > 0) THEN "No voting power"
    ELSE "ok"

\* A vote that does not look at the voted flag
VoteError_NoVotedCheck(caller, proposalId) ==
    IF ~(proposalId < proposalCount) THEN "Invalid proposal"
    ELSE IF ~(now >= proposals[proposalId].startTime) THEN "Voting not started"
    ELSE IF ~(now <= proposals[proposalId].endTime) THEN "Voting ended"
    ELSE IF proposals[proposalId].executed THEN "Proposal executed"
    ELSE IF ~(VoteWeight(caller) > 0) THEN "No voting power"
    ELSE "ok"

\* A voting window that closes just before endTime
VoteError_EndExclusive(caller, proposalId) ==
    IF ~(proposalId < proposalCount) THEN "Invalid proposal"
    ELSE IF ~(now >= proposals[proposalId].startTime) THEN "Voting not started"
    ELSE IF ~(now < proposals[proposalId].endTime) THEN "Voting ended"
    ELSE IF caller \in proposals[proposalId].hasVoted THEN "Already voted"
    ELSE IF proposals[proposalId].executed THEN "Proposal executed"
    ELSE IF ~(VoteWeight(caller) > 0) THEN "No voting power"
    ELSE "ok"

VoteError(caller, proposalId) ==
    IF ~(proposalId < proposalCount) THEN "Invalid proposal"
    ELSE IF ~(now >= proposals[proposalId].startTime) THEN "Voting not started"
    ELSE IF ~(now <= proposals[proposalId].endTime) THEN "Voting ended"
    ELSE IF caller \in proposals[proposalId].hasVoted THEN "Already voted"
    ELSE IF proposals[proposalId].executed THEN "Proposal executed"
    ELSE IF ~(VoteWeight(caller) > 0) THEN "No voting power"
    ELSE "ok"

vote(caller, proposalId, support) ==
    LET err == VoteError(caller, proposalId)
        weight == VoteWeight(caller)
    IN
    /\ lastCall' = Call("vote", caller, NoAddr, NoAddr, proposalId,
                        IF support THEN 1 ELSE 0, err)
    /\ IF err = "ok"
       THEN proposals' = [proposals EXCEPT ![proposalId] =
                [@ EXCEPT !.hasVoted = @ \cup {caller},
                          !.forVotes = IF support THEN @ + weight ELSE @,
                          !.againstVotes = IF support THEN @ ELSE @ + weight]]
       ELSE UNCHANGED proposals
    /\ UNCHANGED <<proposalCount, now, outsideGov>>

\* An execution that does not look at the executed flag
ExecuteProposalError_NoExecutedCheck(proposalId) ==
    IF ~(proposalId < proposalCount) THEN "Invalid proposal"
    ELSE IF ~(now > proposals[proposalId].endTime) THEN "Voting not ended"
    ELSE "ok"

\* An execution that does not wait for the end of the voting period
ExecuteProposalError_NoEndCheck(proposalId) ==
    IF ~(proposalId < proposalCount) THEN "Invalid proposal"
    ELSE IF proposals[proposalId].executed THEN "Already executed"
    ELSE "ok"

ExecuteProposalError(proposalId) ==
    IF ~(proposalId < proposalCount) THEN "Invalid proposal"
    ELSE IF ~(now > proposals[proposalId].endTime) THEN "Voting not ended"
    ELSE IF proposals[proposalId].executed THEN "Already executed"
    ELSE "ok"

\* An execution that enacts a passed proposal by pausing the token
executeProposal_Enacts(caller, proposalId) ==
    LET err == ExecuteProposalError(proposalId)
        passes == proposals[proposalId].forVotes
                      > proposals[proposalId].againstVotes
    IN
    /\ lastCall' = Call("executeProposal", caller, NoAddr, NoAddr, proposalId, 0, err)
    /\ IF err = "ok"
       THEN /\ proposals' = [proposals EXCEPT ![proposalId] =
                   [@ EXCEPT !.executed = TRUE, !.passed = passes]]
            /\ paused' = (paused \/ passes)
       ELSE UNCHANGED <<proposals, paused>>
    /\ UNCHANGED <<proposalCount, now, balances, allowances, totalSupply,
                   cityVars, stakingVars, collectorVars, gatedVars,
                   gatedGovVars>>

executeProposal(caller, proposalId) ==
    LET err == ExecuteProposalError(proposalId) IN
    /\ lastCall' = Call("executeProposal", caller, NoAddr, NoAddr, proposalId, 0, err)
    /\ IF err = "ok"
       THEN proposals' = [proposals EXCEPT ![proposalId] =
                [@ EXCEPT !.executed = TRUE,
                          !.passed = proposals[proposalId].forVotes > proposals[proposalId].againstVotes]]
       ELSE UNCHANGED proposals
    /\ UNCHANGED <<proposalCount, now, outsideGov>>

GetProposalInfoError(proposalId) ==
    IF ~(proposalId < proposalCount) THEN "Invalid proposal" ELSE "ok"

\* The view getProposalInfo: the call record carries the endTime it returns
getProposalInfo(caller, proposalId) ==
    LET err == GetProposalInfoError(proposalId) IN
    /\ lastCall' = Call("getProposalInfo", caller, NoAddr, NoAddr, proposalId,
                        IF err = "ok" THEN proposals[proposalId].endTime ELSE 0,
                        err)
    /\ UNCHANGED <<proposals, proposalCount, now, outsideGov>>

\* -----------------------------------------------------------------
\* The time-gated variant of the ledger (src/unnamed/part_001): the global
\* index is pushed by the oracle, at most once per MIN_UPDATE_INTERVAL, and
\* the owner can add cities.  Indices are in units of 10^18 as token amounts.
\* -----------------------------------------------------------------

MIN_UPDATE_INTERVAL == 24 * 60 * 60
DEFAULT_INDEX == 1000
DefaultCityCount == 10
DefaultCityWeight == 10

\* The city ids the model tells apart: the ten of _initializeCities and two
\* further ones
GatedCityIds == 1 .. 12

\* A slot of the `cities` mapping that was never written
NoCityData == [name |-> "", priceIndex |-> 0, weight |-> 0, isActive |-> FALSE]

DefaultCityNames ==
    <<"New York", "London", "Tokyo", "Hong Kong", "Singapore",
      "Paris", "Sydney", "Toronto", "Seoul", "Zurich">>

InitialCityData ==
    [id \in GatedCityIds |->
        IF id <= DefaultCityCount
        THEN [name |-> DefaultCityNames[id], priceIndex |-> DEFAULT_INDEX,
              weight |-> DefaultCityWeight, isActive |-> TRUE]
        ELSE NoCityData]

SetOracleError(caller, newOracle) ==
    IF caller # Owner THEN "Ownable: caller is not the owner"
    ELSE IF newOracle = NoAddr THEN "GPRET: Invalid oracle address"
    ELSE "ok"

setOracle(caller, newOracle) ==
    LET err == SetOracleError(caller, newOracle)
    IN  /\ lastCall' = Call("setOracle", caller, newOracle, NoAddr, 0, 0, err)
        /\ priceOracle' = IF err = "ok" THEN newOracle ELSE priceOracle
        /\ UNCHANGED <<realEstatePriceIndex, lastPriceUpdate, cityData,
                       activeCityIds, outsideGated>>

UpdatePriceIndexError_NoRateLimit(caller, newIndex) ==
    IF caller # priceOracle THEN "GPRET: Only oracle can call"
    ELSE IF newIndex <= 0 THEN "GPRET: Invalid price index"
    ELSE "ok"

UpdatePriceIndexError(caller, newIndex) ==
    IF caller # priceOracle THEN "GPRET: Only oracle can call"
    ELSE IF ~(now >= lastPriceUpdate + MIN_UPDATE_INTERVAL)
    THEN "GPRET: Update too frequent"
    ELSE IF ~(newIndex > 0) THEN "GPRET: Invalid price index"
    ELSE "ok"

updatePriceIndex(caller, newIndex) ==
    LET err == UpdatePriceIndexError(caller, newIndex)
    IN  /\ lastCall' = Call("updatePriceIndex", caller, NoAddr, NoAddr,
                            newIndex, 0, err)
        /\ realEstatePriceIndex' =
               IF err = "ok" THEN newIndex ELSE realEstatePriceIndex
        /\ lastPriceUpdate' = IF err = "ok" THEN now ELSE lastPriceUpdate
        /\ UNCHANGED <<priceOracle, cityData, activeCityIds, outsideGated>>

GatedUpdateCityPriceError(caller, cityId, newPriceIndex) ==
    IF caller # priceOracle THEN "GPRET: Only oracle can call"
    ELSE IF ~cityData[cityId].isActive THEN "GPRET: City not active"
    ELSE IF ~(newPriceIndex > 0) THEN "GPRET: Invalid price index"
    ELSE "ok"

gatedUpdateCityPrice(caller, cityId, newPriceIndex) ==
    LET err == GatedUpdateCityPriceError(caller, cityId, newPriceIndex)
    IN  /\ lastCall' = Call("gatedUpdateCityPrice", caller, NoAddr, NoAddr,
                            cityId, newPriceIndex, err)
        /\ cityData' = IF err = "ok"
                       THEN [cityData EXCEPT ![cityId].priceIndex = newPriceIndex]
                       ELSE cityData
        /\ UNCHANGED <<realEstatePriceIndex, lastPriceUpdate, priceOracle,
                       activeCityIds, outsideGated>>

AddCityError_NoExistsCheck(caller, cityId, name, weight) ==
    IF caller # Owner THEN "Ownable: caller is not the owner"
    ELSE IF name = "" THEN "GPRET: Empty city name"
    ELSE IF ~(weight > 0) THEN "GPRET: Invalid weight"
    ELSE "ok"

AddCityError(caller, cityId, name, weight) ==
    IF caller # Owner THEN "Ownable: caller is not the owner"
    ELSE IF cityData[cityId].isActive THEN "GPRET: City already exists"
    ELSE IF name = "" THEN "GPRET: Empty city name"
    ELSE IF ~(weight > 0) THEN "GPRET: Invalid weight"
    ELSE "ok"

\* The call record carries the city id and the weight; the name is read off
\* the registry
addCity(caller, cityId, name, weight) ==
    LET err == AddCityError(caller, cityId, name, weight)
    IN  /\ lastCall' = Call("addCity", caller, NoAddr, NoAddr, cityId, weight,
                            err)
        /\ cityData' = IF err = "ok"
                       THEN [cityData EXCEPT
                                ![cityId] = [name |-> name,
                                             priceIndex |-> DEFAULT_INDEX,
                                             weight |-> weight,
                                             isActive |-> TRUE]]
                       ELSE cityData
        /\ activeCityIds' = IF err = "ok" THEN Append(activeCityIds, cityId)
                            ELSE activeCityIds
        /\ UNCHANGED <<realEstatePriceIndex, lastPriceUpdate, priceOracle,
                       outsideGated>>

\* Governance of the time-gated variant.  Proposal ids start at 1; slot 0 of
\* the mapping is never written.  Votes weigh balanceOf on the token ledger
\* modelled above.  The block timestamp of this contract is kept absolute,
\* since its unwritten slots hold the timestamp 0: the contract was deployed
\* at DeployedAt > 0 and the clock `now` counts from there.

DeployedAt == 1
BlockTimestamp == DeployedAt + now

GATED_PROPOSAL_THRESHOLD == TOTAL_SUPPLY \div 1000
MIN_VOTING_PERIOD == 1 * Day
MAX_VOTING_PERIOD == 30 * Day

GatedProposalIds == 0 .. MaxProposals + 1

\* A slot of the `proposals` mapping that was never written
NoProposal ==
    [id |-> 0, description |-> "", forVotes |-> 0, againstVotes |-> 0,
     startTime |-> 0, endTime |-> 0, executed |-> FALSE, proposer |-> NoAddr,
     hasVoted |-> {}]

\* modifier validProposal
ValidProposalError(proposalId) ==
    IF ~(proposalId <= proposalCounter) THEN "GPRET: Invalid proposal ID"
    ELSE "ok"

GatedCreateProposalError(caller, description, votingPeriod) ==
    IF ~(balances[caller] >= GATED_PROPOSAL_THRESHOLD)
        THEN "GPRET: Insufficient tokens"
    ELSE IF description = "" THEN "GPRET: Empty description"
    ELSE IF ~(votingPeriod >= MIN_VOTING_PERIOD
              /\ votingPeriod <= MAX_VOTING_PERIOD)
        THEN "GPRET: Invalid voting period"
    ELSE "ok"

\* The call record carries the voting period and, on success, the id
\* returned
gatedCreateProposal(caller, description, votingPeriod) ==
    LET err == GatedCreateProposalError(caller, description, votingPeriod)
        id == proposalCounter + 1
    IN  /\ proposalCounter < MaxProposals
        /\ lastCall' = Call("gatedCreateProposal", caller, NoAddr, NoAddr,
                            votingPeriod, IF err = "ok" THEN id ELSE 0, err)
        /\ IF err = "ok"
           THEN /\ proposalCounter' = id
                /\ gatedProposals' = [gatedProposals EXCEPT ![id] =
                       [id |-> id, description |-> description,
                        forVotes |-> 0, againstVotes |-> 0,
                        startTime |-> BlockTimestamp,
                        endTime |-> BlockTimestamp + votingPeriod,
                        executed |-> FALSE, proposer |-> caller,
                        hasVoted |-> gatedProposals[id].hasVoted]]
           ELSE UNCHANGED <<proposalCounter, gatedProposals>>
        /\ UNCHANGED <<now, tokenVars, cityVars, govVars, stakingVars,
                       collectorVars, gatedVars>>

GatedVoteError(caller, proposalId) ==
    IF ValidProposalError(proposalId) # "ok" THEN ValidProposalError(proposalId)
    ELSE IF ~(BlockTimestamp >= gatedProposals[proposalId].startTime)
        THEN "GPRET: Voting not started"
    ELSE IF ~(BlockTimestamp <= gatedProposals[proposalId].endTime)
        THEN "GPRET: Voting ended"
    ELSE IF caller \in gatedProposals[proposalId].hasVoted
        THEN "GPRET: Already voted"
    ELSE IF ~(balances[caller] > 0) THEN "GPRET: No voting power"
    ELSE "ok"

gatedVote(caller, proposalId, support) ==
    LET err == GatedVoteError(caller, proposalId)
        voterBalance == balances[caller]
    IN  /\ lastCall' = Call("gatedVote", caller, NoAddr, NoAddr, proposalId,
                            IF support THEN 1 ELSE 0, err)
        /\ IF err = "ok"
           THEN gatedProposals' = [gatedProposals EXCEPT ![proposalId] =
                    [@ EXCEPT !.hasVoted = @ \cup {caller},
                              !.forVotes =
                                  IF support THEN @ + voterBalance ELSE @,
                              !.againstVotes =
                                  IF support THEN @ ELSE @ + voterBalance]]
           ELSE UNCHANGED gatedProposals
        /\ UNCHANGED <<proposalCounter, now, tokenVars, cityVars, govVars,
                       stakingVars, collectorVars, gatedVars>>

\* The view getProposal: the call record carries the endTime it returns
getProposal(caller, proposalId) ==
    LET err == ValidProposalError(proposalId)
    IN  /\ lastCall' = Call("getProposal", caller, NoAddr, NoAddr, proposalId,
                            IF err = "ok"
                            THEN gatedProposals[proposalId].endTime ELSE 0,
                            err)
        /\ UNCHANGED <<proposalCounter, gatedProposals, now, tokenVars,
                       cityVars, govVars, stakingVars, collectorVars,
                       gatedVars>>

\* -----------------------------------------------------------------
\* Price collector and its server: scripts/oracle/price-collector.js
\* Prices are whole numbers as in the code, the global index is held in
\* hundredths (the code rounds it to two decimals), and instants are
\* seconds on the clock `now`, which the collector's host shares.
\* -----------------------------------------------------------------

\* Upper bound on the collection cycles the model lets overlap
MaxRunning == 2

\* The ids of this.cities, in the order the cycle visits them
CollectorCities == 1 .. 10

BasePrices ==
    <<15000, 12000, 8000, 18000, 14000, 11000, 9000, 7000, 6000, 13000>>

DefaultBasePrice == 8000

getCityBasePrice(city) ==
    IF city \in DOMAIN BasePrices THEN BasePrices[city] ELSE DefaultBasePrice

dataSources ==
    << [name |-> "Mock Real Estate API", weight |-> 30, active |-> TRUE],
       [name |-> "Free Property Index", weight |-> 25, active |-> TRUE],
       [name |-> "Open Real Estate Data", weight |-> 25, active |-> TRUE],
       [name |-> "Global Property Trends", weight |-> 20, active |-> TRUE] >>

mockSources ==
    << [name |-> "Historical Data", weight |-> 40],
       [name |-> "Market Trends", weight |-> 35],
       [name |-> "Local Indices", weight |-> 25] >>

baseIndex == 1000
GlobalAveragePrice == 10000
HistoryLimit == 100
DefaultHistoryLimit == 30
InitialDelay == 5 * 60
UpdateInterval == 24 * 60 * 60

\* A file of the data directory: absent, holding a JSON document, or holding
\* bytes that JSON.parse rejects
MissingFile == [state |-> "missing"]
CorruptFile == [state |-> "corrupt"]
ValidFile(content) == [state |-> "valid", content |-> content]

\* The `results` object collectAllPrices builds; `trigger` names the caller
\* that awaits it
NewResults(trigger, timestamp) ==
    [trigger |-> trigger, timestamp |-> timestamp, cities |-> <<>>,
     globalIndex |-> 0, errors |-> <<>>]

NoResults == NewResults("none", 0)

\* What one fetchFromSource call did: threw, answered without a usable
\* price, or answered with the price itself
Threw == 0 - 1
NoPrice == 0

\* The first loop of collectCityPrice over dataSources[1..s]: a sample is
\* kept for every active source that answered with a price > 0
RECURSIVE fetchedPrices(_, _)
fetchedPrices(fetched, s) ==
    IF s = 0 THEN <<>>
    ELSE LET rest == fetchedPrices(fetched, s - 1)
         IN  IF dataSources[s].active /\ fetched[s] > 0
             THEN Append(rest, [source |-> dataSources[s].name,
                                price |-> fetched[s],
                                weight |-> dataSources[s].weight])
             ELSE rest

\* variation[k] is the random factor of the k-th sample, in percent of the
\* base price (95 .. 105)
generateMockPrices(city, variation) ==
    [k \in 1 .. Len(mockSources) |->
        [source |-> mockSources[k].name,
         price |-> (getCityBasePrice(city) * variation[k] + 50) \div 100,
         weight |-> mockSources[k].weight]]

RECURSIVE SampleWeightedSum(_, _)
SampleWeightedSum(prices, n) ==
    IF n = 0 THEN 0
    ELSE prices[n].price * prices[n].weight + SampleWeightedSum(prices, n - 1)

RECURSIVE SampleTotalWeight(_, _)
SampleTotalWeight(prices, n) ==
    IF n = 0 THEN 0 ELSE prices[n].weight + SampleTotalWeight(prices, n - 1)

\* Math.round(weightedSum / totalWeight)
calculateWeightedAverage(prices) ==
    LET weightedSum == SampleWeightedSum(prices, Len(prices))
        totalWeight == SampleTotalWeight(prices, Len(prices))
    IN  IF Len(prices) = 0 THEN 0
        ELSE IF totalWeight > 0
        THEN (2 * weightedSum + totalWeight) \div (2 * totalWeight)
        ELSE 0

collectCityPrice_NoFallback(city, fetched, variation) ==
    LET answered == fetchedPrices(fetched, Len(dataSources))
    IN  [id |-> city,
         prices |-> answered,
         averagePrice |-> calculateWeightedAverage(answered),
         sources |-> Len(answered)]

collectCityPrice(city, fetched, variation) ==
    LET answered == fetchedPrices(fetched, Len(dataSources))
        mock == generateMockPrices(city, variation)
        prices == IF Len(answered) = 0 THEN mock ELSE answered
    IN  [id |-> city,
         prices |-> prices,
         averagePrice |-> calculateWeightedAverage(prices),
         sources |-> IF Len(answered) = 0 THEN Len(mock) ELSE Len(answered)]

RECURSIVE SumAveragePrice(_, _)
SumAveragePrice(cityResults, n) ==
    IF n = 0 THEN 0
    ELSE cityResults[n].averagePrice + SumAveragePrice(cityResults, n - 1)

\* Math.round((avgPrice / globalAvg) * baseIndex * 100) / 100 with
\* avgPrice = sum / n, in hundredths
calculateGlobalIndex(cityResults) ==
    LET n == Len(cityResults)
        sum == SumAveragePrice(cityResults, n)
        scale == GlobalAveragePrice \div 100
    IN  IF n = 0 THEN baseIndex * 100
        ELSE (2 * sum * baseIndex + scale * n) \div (2 * scale * n)

\* A step of the collector: the operation, the trigger of the cycle it
\* belongs to, the cycle's timestamp, a city id where one is involved, the
\* outcome, and what the data sources did
Step(op, trigger, timestamp, city, result, fetched) ==
    [op |-> op, caller |-> trigger, a1 |-> NoAddr, a2 |-> NoAddr,
     x |-> timestamp, y |-> city, result |-> result, fetched |-> fetched]

\* The next instant after t at which a timer of startScheduledUpdates
\* fires: once InitialDelay after the start, then every UpdateInterval
NextTimer(t) ==
    IF t - startedAt < InitialDelay THEN startedAt + InitialDelay
    ELSE startedAt + (((t - startedAt) \div UpdateInterval) + 1) * UpdateInterval

\* collectAllPrices up to its first await: a fresh `results` stamped with
\* the current instant
startCycle(op, trigger, t) ==
    /\ Len(running) < MaxRunning
    /\ now' = t
    /\ running' = Append(running, NewResults(trigger, t))
    /\ lastCall' = Step(op, trigger, t, 0, "started", <<>>)
    /\ UNCHANGED <<priceHistory, latestFile, historyFile, lastResults,
                   startedAt, outsideCollector>>

\* POST /api/update/prices arriving at instant t, before the next timer
manualUpdate(t) ==
    /\ now <= t
    /\ t < NextTimer(now)
    /\ startCycle("manualUpdate", "manual", t)

\* The timer callback, at the instant the next timer fires
runScheduledUpdate ==
    startCycle("runScheduledUpdate", "scheduled", NextTimer(now))

\* One iteration of the loop over this.cities in the i-th cycle in flight
collectCityStep(i, fetched, variation) ==
    /\ i \in 1 .. Len(running)
    /\ Len(running[i].cities) < Cardinality(CollectorCities)
    /\ LET city == Len(running[i].cities) + 1
           cityResult == collectCityPrice(city, fetched, variation)
       IN  /\ running' = [running EXCEPT ![i].cities = Append(@, cityResult)]
           /\ lastCall' = Step("collectCityPrice", running[i].trigger,
                               running[i].timestamp, city, "ok", fetched)
    /\ UNCHANGED <<now, priceHistory, latestFile, historyFile, lastResults,
                   startedAt, outsideCollector>>

Summary(results) ==
    [timestamp |-> results.timestamp,
     globalIndex |-> results.globalIndex,
     citiesCount |-> Len(results.cities)]

PushAndTrim_KeepsOldest(history, results) ==
    LET pushed == Append(history, Summary(results))
    IN  IF Len(pushed) > HistoryLimit
        THEN SubSeq(pushed, 1, HistoryLimit)
        ELSE pushed

\* priceHistory after the push and the trim of updatePriceHistory
PushAndTrim(history, results) ==
    LET pushed == Append(history, Summary(results))
    IN  IF Len(pushed) > HistoryLimit
        THEN SubSeq(pushed, Len(pushed) - HistoryLimit + 1, Len(pushed))
        ELSE pushed

\* What a writeFileSync over an existing or absent file leaves behind: the
\* new document, the file as it was (the call failed before touching it), or
\* a truncated document (the call failed after opening the file for writing)
WriteOutcomes == {"ok", "failed", "torn"}

Written(file, content, outcome) ==
    IF outcome = "ok" THEN ValidFile(content)
    ELSE IF outcome = "torn" THEN CorruptFile
    ELSE file

Failure(what, t) == [error |-> what, timestamp |-> t]

\* The rest of collectAllPrices once every city is collected: the global
\* index, saveResults, updatePriceHistory, and the catch block that turns
\* an exception of either into an entry of results.errors.  `save` is the
\* outcome of writing latest.json (a failure of the mkdir or of the
\* timestamped file before it is "failed": latest.json is not touched) and
\* `history` that of writing price-history.json.
finishCycle(i, save, history) ==
    /\ i \in 1 .. Len(running)
    /\ Len(running[i].cities) = Cardinality(CollectorCities)
    /\ LET results ==
               [running[i] EXCEPT
                   !.globalIndex = calculateGlobalIndex(running[i].cities)]
           saved == save = "ok"
           kept == saved /\ history = "ok"
           returned ==
               IF kept THEN results
               ELSE [results EXCEPT !.errors =
                        Append(@, Failure(IF saved THEN "history" ELSE "save",
                                          now))]
       IN  /\ latestFile' = Written(latestFile, results, save)
           /\ priceHistory' = IF saved THEN PushAndTrim(priceHistory, results)
                              ELSE priceHistory
           /\ historyFile' =
                  IF saved
                  THEN Written(historyFile,
                               PushAndTrim(priceHistory, results), history)
                  ELSE historyFile
           /\ lastResults' = returned
           /\ lastCall' = Step("collectAllPrices", results.trigger,
                               results.timestamp, 0,
                               IF kept THEN "ok" ELSE "error", <<>>)
    /\ running' = [k \in 1 .. Len(running) - 1 |->
                      IF k < i THEN running[k] ELSE running[k + 1]]
    /\ UNCHANGED <<now, startedAt, outsideCollector>>

\* The server process ends (shutdown calls process.exit, abandoning the
\* cycles in flight) and a new one is started: its constructor builds a
\* collector with an empty priceHistory and starts the timers afresh; the
\* data files stay as they are
restart ==
    /\ running' = <<>>
    /\ priceHistory' = <<>>
    /\ lastResults' = NoResults
    /\ startedAt' = now
    /\ lastCall' = Step("restart", "none", now, 0, "ok", <<>>)
    /\ UNCHANGED <<now, latestFile, historyFile, outsideCollector>>

\* The server's readers
Null == [state |-> "null"]

getLatestData ==
    IF latestFile.state = "valid" THEN latestFile.content ELSE Null

getPriceHistory(limit) ==
    IF historyFile.state = "valid"
    THEN LET h == historyFile.content
         IN  SubSeq(h, IF Len(h) > limit THEN Len(h) - limit + 1 ELSE 1, Len(h))
    ELSE <<>>

\* -----------------------------------------------------------------
\* Initial state: both contracts freshly deployed by Owner at time 0
\* -----------------------------------------------------------------

Init ==
    /\ balances = [h \in Holders |-> IF h = Owner THEN TOTAL_SUPPLY ELSE 0]
    /\ allowances = [h \in Holders |-> [sp \in Holders |-> 0]]
    /\ totalSupply = TOTAL_SUPPLY
    /\ paused = FALSE
    /\ now = 0
    /\ cities = InitialCities
    /\ globalPriceIndex = BASE_INDEX
    /\ oracleAddress = NoAddr
    /\ lastUpdateTimestamp = 0
    /\ proposals = [i \in ProposalIds |-> EmptyProposal]
    /\ proposalCount = 0
    /\ userStakes = [a \in Accounts |-> <<>>]
    /\ userTotalStaked = [a \in Accounts |-> 0]
    /\ userGovernanceWeight = [a \in Accounts |-> 0]
    /\ totalStaked = 0
    /\ totalStakers = 0
    /\ periodMultipliers = InitialMultipliers
    /\ stakingPaused = FALSE
    /\ running = <<>>
    /\ priceHistory = <<>>
    /\ latestFile = MissingFile
    /\ historyFile = MissingFile
    /\ lastResults = NoResults
    /\ startedAt = 0
    /\ realEstatePriceIndex = DEFAULT_INDEX
    /\ lastPriceUpdate = 0
    /\ priceOracle = NoAddr
    /\ cityData = InitialCityData
    /\ activeCityIds = [i \in 1 .. DefaultCityCount |-> i]
    /\ proposalCounter = 0
    /\ gatedProposals = [i \in GatedProposalIds |-> NoProposal]
    /\ lastCall = Call("constructor", Owner, NoAddr, NoAddr, 0, 0, "ok")

\* The model lets at most MaxFloat tokens leave the deployer's account
FloatOK(from, to, value) ==
    (from = Owner /\ to # Owner) =>
        TOTAL_SUPPLY - (balances[Owner] - value) <= MaxFloat

\* -----------------------------------------------------------------
\* Token transfers alone
\* -----------------------------------------------------------------

TransferAmounts == {0, 1000, 2000}
Spenders == {"user1"}

NextTransfer ==
    \/ \E c \in Accounts, to \in Holders, v \in TransferAmounts :
          FloatOK(c, to, v) /\ transfer(c, to, v)
    \/ \E c \in Accounts, sp \in Spenders, v \in TransferAmounts :
          approve(c, sp, v)
    \/ \E sp \in Spenders, from \in Accounts, to \in Holders, v \in TransferAmounts :
          FloatOK(from, to, v) /\ transferFrom(sp, from, to, v)
    \/ \E c \in {Owner, "user1"} : pause(c)
    \/ \E c \in {Owner, "user1"} : unpause(c)

SpecTransfer == Init /\ [][NextTransfer]_vars

\* -----------------------------------------------------------------
\* The staking ledger with its token moves
\* -----------------------------------------------------------------

Stakers == {Owner, "user1"}
StakeIndices == 0 .. MaxStakes

NextStaking ==
    \/ FloatOK(Owner, "user1", 1000) /\ transfer(Owner, "user1", 1000)
    \/ \E c \in Stakers : approve(c, StakingAddr, 1000)
    \/ \E a \in {0, 1000} : stake("user1", a, 7 * Day)
    \/ userStakes[Owner] = <<>> /\ stake(Owner, 1000, 7 * Day)
    \/ \E c \in Stakers, i \in StakeIndices : unstake(c, i)
    \/ \E u \in Stakers, i \in StakeIndices : emergencyUnstake(Owner, u, i)
    \/ emergencyUnstake("user1", Owner, 0)
    \/ \E c \in Stakers, m \in {150, 501} : updatePeriodMultiplier(c, 7 * Day, m)
    \/ advanceTime(7 * Day)

SpecStaking == Init /\ [][NextStaking]_vars

\* -----------------------------------------------------------------
\* One staker against the lock clock, with the token's emergency halt
\* -----------------------------------------------------------------

LockTimes == {1 * Day, 7 * Day, 8 * Day, 30 * Day}

NextLock ==
    \/ FloatOK(Owner, "user1", 1000) /\ transfer(Owner, "user1", 1000)
    \/ approve("user1", StakingAddr, 2000)
    \/ \E p \in {7 * Day, 30 * Day} : stake("user1", 1000, p)
    \/ \E i \in StakeIndices : unstake("user1", i)
    \/ \E i \in StakeIndices : emergencyUnstake(Owner, "user1", i)
    \/ pause(Owner)
    \/ unpause(Owner)
    \/ \E t \in LockTimes : advanceTime(t)

SpecLock == Init /\ [][NextLock]_vars

\* -----------------------------------------------------------------
\* Stake creation under every lock period and a changing multiplier table
\* -----------------------------------------------------------------

WeightPeriods == {6 * Day, 7 * Day, 15 * Day, 30 * Day, 90 * Day, 180 * Day,
                  365 * Day, 366 * Day}

NextWeight ==
    \/ approve(Owner, StakingAddr, 2000)
    \/ \E a \in {7, 1000}, p \in WeightPeriods : stake(Owner, a, p)
    \/ \E c \in Stakers, p \in {7 * Day, 15 * Day}, m \in {99, 333} :
          updatePeriodMultiplier(c, p, m)

SpecWeight == Init /\ [][NextWeight]_vars

\* -----------------------------------------------------------------
\* The city index: oracle prices and the owner's weight and status changes
\* -----------------------------------------------------------------

\* The owner toggles the three largest cities freely and retires the seven
\* others one after another
LargeCities == {0, 1, 2}

RetireNext(cityId) ==
    /\ cityId \notin LargeCities
    /\ cities[cityId].isActive
    /\ \A j \in CityIds : (j \notin LargeCities /\ j < cityId) => ~cities[j].isActive

CityTimes == {1 * Day, 2 * Day}

NextCity ==
    \/ \E c \in {Owner, "user1"}, o \in {"user2", NoAddr} : setOracleAddress(c, o)
    \/ \E c \in {"user1", "user2"}, id \in {0, cityCount},
          price \in {0, 500000, 1300001} : updateCityPrice(c, id, price)
    \/ \E id \in {1, cityCount}, w \in {0, 3} : updateCityWeight(Owner, id, w)
    \/ \E id \in LargeCities \cup {cityCount} : toggleCityStatus(Owner, id)
    \/ \E id \in CityIds : RetireNext(id) /\ toggleCityStatus(Owner, id)
    \/ toggleCityStatus("user1", 0)
    \/ \E t \in CityTimes : advanceTime(t)

SpecCity == Init /\ [][NextCity]_vars

\* -----------------------------------------------------------------
\* Governance by token holders
\* -----------------------------------------------------------------

Voters == {"user1", "user2"}
ProposalInputs == 0 .. MaxProposals
Descriptions == {"", "Add city X"}
GovTimes == {1 * Day, 8 * Day, 9 * Day}

\* Each voter receives its tokens once; proposals are created by user1 during
\* the first two days
NextGov ==
    \/ \E u \in Voters : balances[u] = 0 /\ transfer(Owner, u, 1000)
    \/ \E d \in Descriptions : now <= 1 * Day /\ createProposal("user1", d)
    \/ \E c \in Voters, id \in ProposalInputs, support \in BOOLEAN :
          vote(c, id, support)
    \/ \E c \in {Owner, "user2"}, id \in ProposalInputs : executeProposal(c, id)
    \/ \E t \in GovTimes : advanceTime(t)

SpecGov == Init /\ [][NextGov]_vars

\* -----------------------------------------------------------------
\* Two equally funded holders who stake and then vote on one proposal
\* -----------------------------------------------------------------

Holding == 10000
StakeAmounts == {1000, 2000}
StakeVoteTimes == {1 * Day, 2 * Day}

Holdings(u) == balances[u] + userTotalStaked[u]

NextStakeVote ==
    \/ \E u \in Voters : Holdings(u) = 0 /\ transfer(Owner, u, Holding)
    \/ \E u \in Voters : userTotalStaked[u] > 0 /\ transfer(u, Owner, balances[u])
    \/ \E u \in Voters : approve(u, StakingAddr, 2000)
    \/ \E u \in Voters, a \in StakeAmounts :
          userStakes[u] = <<>> /\ stake(u, a, 180 * Day)
    \/ proposalCount = 0 /\ createProposal("user1", "Test weighted voting")
    \/ \E c \in Voters, id \in {0, 1}, support \in BOOLEAN : vote(c, id, support)
    \/ \E t \in StakeVoteTimes : advanceTime(t)

SpecStakeVote == Init /\ [][NextStakeVote]_vars

\* -----------------------------------------------------------------
\* The token's emergency halt against every balance-changing operation
\* -----------------------------------------------------------------

HaltAmounts == {0, 1000, 2000}
HaltCallers == {Owner, "user1"}

NextHalt ==
    \/ \E c \in HaltCallers, to \in {"user1", "user2"}, v \in HaltAmounts :
          FloatOK(c, to, v) /\ transfer(c, to, v)
    \/ \E v \in HaltAmounts : approve(Owner, "user1", v)
    \/ \E to \in {"user1", "user2"}, v \in HaltAmounts :
          FloatOK(Owner, to, v) /\ transferFrom("user1", Owner, to, v)
    \/ \E c \in HaltCallers, v \in HaltAmounts :
          FloatOK(c, NoAddr, v) /\ burn(c, v)
    \/ \E c \in HaltCallers : pause(c)
    \/ \E c \in HaltCallers : unpause(c)

SpecHalt == Init /\ [][NextHalt]_vars

\* -----------------------------------------------------------------
\* The oracle right: set, replaced, and used on known and unknown cities
\* -----------------------------------------------------------------

OracleCandidates == {"user1", "user2", NoAddr}
PriceCallers == {Owner, "user1", "user2"}
PriceCities == {0, 1, cityCount}
Prices == {0, 500000, 1300001}

NextOracle ==
    \/ \E c \in {Owner, "user1"}, o \in OracleCandidates : setOracleAddress(c, o)
    \/ \E c \in PriceCallers, id \in PriceCities, price \in Prices :
          updateCityPrice(c, id, price)
    \/ toggleCityStatus(Owner, 1)
    \/ advanceTime(1 * Day)

SpecOracle == Init /\ [][NextOracle]_vars

\* -----------------------------------------------------------------
\* Stake requests that meet and that miss the preconditions of stake
\* -----------------------------------------------------------------

GuardAmounts == {0, 1000, 2000}
GuardPeriods == {6 * Day, 7 * Day, 15 * Day, 366 * Day}

NextStakeGuard ==
    \/ FloatOK(Owner, "user1", 1000) /\ transfer(Owner, "user1", 1000)
    \/ \E v \in {1000, 2000} : approve("user1", StakingAddr, v)
    \/ \E a \in GuardAmounts, p \in GuardPeriods : stake("user1", a, p)
    \/ \E c \in {Owner, "user1"} : staking_pause(c)
    \/ \E c \in {Owner, "user1"} : staking_unpause(c)

SpecStakeGuard == Init /\ [][NextStakeGuard]_vars

\* -----------------------------------------------------------------
\* The owner's emergency withdrawal during the lock, with the token's halt
\* -----------------------------------------------------------------

EmergencyTimes == {1 * Day, 30 * Day}

NextEmergency ==
    \/ FloatOK(Owner, "user1", 1000) /\ transfer(Owner, "user1", 1000)
    \/ approve("user1", StakingAddr, 1000)
    \/ stake("user1", 1000, 30 * Day)
    \/ \E i \in StakeIndices : unstake("user1", i)
    \/ \E c \in {Owner, "user1"}, i \in StakeIndices :
          emergencyUnstake(c, "user1", i)
    \/ pause(Owner)
    \/ unpause(Owner)
    \/ \E t \in EmergencyTimes : advanceTime(t)

SpecEmergency == Init /\ [][NextEmergency]_vars

\* -----------------------------------------------------------------
\* The multiplier table under valid and invalid updates
\* -----------------------------------------------------------------

TablePeriods == {6 * Day, 7 * Day, 15 * Day, 365 * Day, 366 * Day}
TableMultipliers == {0, 99, 100, 500, 501}

NextMultiplier ==
    \E c \in {Owner, "user1"}, p \in TablePeriods, m \in TableMultipliers :
        updatePeriodMultiplier(c, p, m)

SpecMultiplier == Init /\ [][NextMultiplier]_vars

\* -----------------------------------------------------------------
\* The supply under every operation of both contracts, burns included
\* -----------------------------------------------------------------

BurnAmounts == {0, 500}
SupplyTimes == {1 * Day, 9 * Day}

NextSupply ==
    \/ FloatOK(Owner, "user1", 1000) /\ transfer(Owner, "user1", 1000)
    \/ approve("user1", StakingAddr, 1000)
    \/ userStakes["user1"] = <<>> /\ stake("user1", 500, 7 * Day)
    \/ unstake("user1", 0)
    \/ emergencyUnstake(Owner, "user1", 0)
    \/ proposalCount = 0 /\ createProposal("user1", "Add city X")
    \/ \E support \in BOOLEAN : vote("user1", 0, support)
    \/ executeProposal("user2", 0)
    \/ setOracleAddress(Owner, "user2")
    \/ updateCityPrice("user2", 0, 1300001)
    \/ \E c \in {Owner, "user1"}, v \in BurnAmounts :
          FloatOK(c, NoAddr, v) /\ burn(c, v)
    \/ \E t \in SupplyTimes : advanceTime(t)

SpecSupply == Init /\ [][NextSupply]_vars

\* -----------------------------------------------------------------
\* Manual and scheduled collection cycles with every source answering
\* -----------------------------------------------------------------

\* Every source answers with the city's base price
BaseAnswers(city) ==
    [s \in 1 .. Len(dataSources) |-> getCityBasePrice(city)]

NoVariation == [k \in 1 .. Len(mockSources) |-> 100]

CityDue(i) == Len(running[i].cities) + 1

OverlapInstants == {100, 200, 400}

NextOverlap ==
    \/ \E t \in OverlapInstants : t > now /\ manualUpdate(t)
    \/ now < InitialDelay /\ runScheduledUpdate
    \/ \E i \in 1 .. Len(running) :
          collectCityStep(i, BaseAnswers(CityDue(i)), NoVariation)
    \/ \E i \in 1 .. Len(running) : finishCycle(i, "ok", "ok")

SpecOverlap == Init /\ [][NextOverlap]_vars

\* -----------------------------------------------------------------
\* One collection cycle whose data sources fail in every combination of
\* kinds for the first cities
\* -----------------------------------------------------------------

\* The sources' behaviour is varied for the first VariedCities cities and
\* for the last one
VariedCities == 2

LowAnswers(city) ==
    [s \in 1 .. Len(dataSources) |-> (getCityBasePrice(city) * 95) \div 100]

SourcePatterns(city) ==
    IF city <= VariedCities
    THEN { BaseAnswers(city),
           [s \in 1 .. Len(dataSources) |-> Threw],
           [s \in 1 .. Len(dataSources) |-> NoPrice],
           [BaseAnswers(city) EXCEPT ![1] = Threw],
           [LowAnswers(city) EXCEPT ![2] = NoPrice, ![4] = Threw],
           [BaseAnswers(city) EXCEPT ![1] = Threw, ![2] = NoPrice,
                                     ![3] = Threw] }
    ELSE IF city = Cardinality(CollectorCities)
    THEN { BaseAnswers(city), [s \in 1 .. Len(dataSources) |-> Threw] }
    ELSE { BaseAnswers(city) }

Variations == { NoVariation, <<95, 105, 98>> }

NextSources ==
    \/ running = <<>> /\ lastResults = NoResults /\ manualUpdate(100)
    \/ \E i \in 1 .. Len(running) :
          \E fetched \in SourcePatterns(CityDue(i)), variation \in Variations :
              collectCityStep(i, fetched, variation)
    \/ \E i \in 1 .. Len(running) : finishCycle(i, "ok", "ok")

SpecSources == Init /\ [][NextSources]_vars

\* -----------------------------------------------------------------
\* More cycles than the history retains, one request per second
\* -----------------------------------------------------------------

\* The number of cycles run, the instant up to which requests may overlap,
\* and the instant up to which the snapshot write of a cycle may fail
HistoryCycles == 103
OverlapUntil == 2
FailUntil == 3

NextHistory ==
    \/ /\ now < HistoryCycles
       /\ running = <<>> \/ now < OverlapUntil
       /\ manualUpdate(now + 1)
    \/ \E i \in 1 .. Len(running) :
          collectCityStep(i, BaseAnswers(CityDue(i)), NoVariation)
    \/ \E i \in 1 .. Len(running) : finishCycle(i, "ok", "ok")
    \/ \E i \in 1 .. Len(running) :
          running[i].timestamp <= FailUntil /\ finishCycle(i, "failed", "ok")

SpecHistory == Init /\ [][NextHistory]_vars

\* -----------------------------------------------------------------
\* The scheduler's timers with snapshot and history writes that may fail
\* -----------------------------------------------------------------

\* Timers fire up to and including this instant
LastTimer == 2 * UpdateInterval

NextSchedule ==
    \/ now < LastTimer /\ runScheduledUpdate
    \/ \E i \in 1 .. Len(running) :
          collectCityStep(i, BaseAnswers(CityDue(i)), NoVariation)
    \/ \E i \in 1 .. Len(running), save \in WriteOutcomes,
          history \in WriteOutcomes : finishCycle(i, save, history)

SpecSchedule == Init /\ [][NextSchedule]_vars

\* -----------------------------------------------------------------
\* Time-gated index updates around the 24-hour boundary
\* -----------------------------------------------------------------

GatedCallers == {Owner, "user1", "user2"}
GatedIndices == {0, 1100, 1200}
GatedTimes ==
    {1, Day - 1, Day, Day + 1, 2 * Day - 1, 2 * Day, 2 * Day + 1, 3 * Day}

NextRateLimit ==
    \/ \E c \in {Owner, "user1"}, o \in {NoAddr, "user2"} : setOracle(c, o)
    \/ \E c \in GatedCallers, x \in GatedIndices : updatePriceIndex(c, x)
    \/ \E c \in GatedCallers, id \in {1, 11}, x \in {0, 1100} :
          gatedUpdateCityPrice(c, id, x)
    \/ \E t \in GatedTimes : advanceTime(t)

SpecRateLimit == Init /\ [][NextRateLimit]_vars

\* -----------------------------------------------------------------
\* Adding cities to the time-gated ledger
\* -----------------------------------------------------------------

AddedIds == {1, 11, 12}
AddedNames == {"", "Miami"}
AddedWeights == {0, 5, 7}

NextAddCity ==
    \/ \E c \in {Owner, "user1"}, id \in AddedIds, name \in AddedNames,
          w \in AddedWeights : addCity(c, id, name, w)
    \/ setOracle(Owner, "user2")
    \/ \E id \in AddedIds, x \in {0, 1100} :
          gatedUpdateCityPrice("user2", id, x)

SpecAddCity == Init /\ [][NextAddCity]_vars

\* -----------------------------------------------------------------
\* Executions of proposals of any wording amid token, oracle and pause
\* activity
\* -----------------------------------------------------------------

Wordings == {"Add city X", "Pause the token"}
ExecuteTimes == {1 * Day, 9 * Day}

NextExecute ==
    \/ balances["user1"] = 0 /\ transfer(Owner, "user1", 1000)
    \/ \E d \in Wordings : now = 0 /\ createProposal("user1", d)
    \/ \E id \in ProposalIds, support \in BOOLEAN : vote("user1", id, support)
    \/ \E c \in {Owner, "user2"}, id \in ProposalIds : executeProposal(c, id)
    \/ pause(Owner)
    \/ unpause(Owner)
    \/ setOracleAddress(Owner, "user2")
    \/ updateCityPrice("user2", 0, 1300001)
    \/ \E t \in ExecuteTimes : advanceTime(t)

SpecExecute == Init /\ [][NextExecute]_vars

\* -----------------------------------------------------------------
\* Votes, executions and queries with known and unknown proposal ids, on
\* the current ledger and on its time-gated variant
\* -----------------------------------------------------------------

UnknownTimes == {1 * Day, 9 * Day}

NextUnknown ==
    \/ balances["user1"] = 0 /\ transfer(Owner, "user1", 1000)
    \/ now = 0 /\ createProposal("user1", "Add city X")
    \/ \E id \in ProposalInputs : vote("user1", id, TRUE)
    \/ \E id \in ProposalInputs : executeProposal("user2", id)
    \/ \E id \in ProposalInputs : getProposalInfo("user2", id)
    \/ \E d \in Descriptions, p \in {0, 1 * Day} :
          now = 0 /\ gatedCreateProposal(Owner, d, p)
    \/ gatedCreateProposal("user1", "Add city X", 1 * Day)
    \/ \E id \in GatedProposalIds : gatedVote("user1", id, TRUE)
    \/ \E id \in GatedProposalIds : getProposal("user2", id)
    \/ \E t \in UnknownTimes : advanceTime(t)

SpecUnknown == Init /\ [][NextUnknown]_vars

\* -----------------------------------------------------------------
\* Collection cycles before and after restarts of the server
\* -----------------------------------------------------------------

RestartInstants == {100, 200, 250}
LastRestartTimer == InitialDelay + 100

NextRestart ==
    \/ \E t \in RestartInstants :
          t > now /\ running = <<>> /\ manualUpdate(t)
    \/ /\ NextTimer(now) <= LastRestartTimer
       /\ running = <<>>
       /\ runScheduledUpdate
    \/ \E i \in 1 .. Len(running) :
          collectCityStep(i, BaseAnswers(CityDue(i)), NoVariation)
    \/ \E i \in 1 .. Len(running) : finishCycle(i, "ok", "ok")
    \/ startedAt < now /\ restart

SpecRestart == Init /\ [][NextRestart]_vars

\* Votes between whole-balance transfers: the owner proposes, and the
\* owner and user1 pass the supply back and forth while the vote is open
SnapshotTimes == {1 * Day, 9 * Day}

NextSnapshot ==
    \/ now = 0 /\ createProposal(Owner, "Add city X")
    \/ \E id \in ProposalIds : vote(Owner, id, TRUE)
    \/ \E id \in ProposalIds, support \in BOOLEAN : vote("user1", id, support)
    \/ \E value \in {PROPOSAL_THRESHOLD, balances[Owner]} :
          balances["user1"] = 0 /\ value > 0 /\ transfer(Owner, "user1", value)
    \/ balances["user1"] > 0 /\ transfer("user1", Owner, balances["user1"])
    \/ \E t \in SnapshotTimes : advanceTime(t)

SpecSnapshot == Init /\ [][NextSnapshot]_vars

\* Two stakers, tokens sent to the staking contract directly, and attempts
\* to pull tokens out of it through the token's own interface
NextSolvency ==
    \/ FloatOK(Owner, "user1", 1000) /\ transfer(Owner, "user1", 1000)
    \/ \E c \in Stakers : approve(c, StakingAddr, 1000)
    \/ stake("user1", 500, 7 * Day)
    \/ userStakes[Owner] = <<>> /\ stake(Owner, 1000, 7 * Day)
    \/ \E c \in Stakers, i \in StakeIndices : unstake(c, i)
    \/ \E c \in Stakers, u \in Stakers, i \in StakeIndices :
          emergencyUnstake(c, u, i)
    \/ transfer("user1", StakingAddr, 500)
    \/ \E c \in Stakers : transferFrom(c, StakingAddr, c, 500)
    \/ advanceTime(7 * Day)

SpecSolvency == Init /\ [][NextSolvency]_vars

\* Governance, the city registry and the staking ledger while the owner
\* pauses and unpauses the token
PauseScopeTimes == {1 * Day, 7 * Day, 9 * Day}

NextPauseScope ==
    \/ balances["user1"] = 0 /\ transfer(Owner, "user1", 2000)
    \/ allowances["user1"][StakingAddr] = 0 /\ approve("user1", StakingAddr, 1000)
    \/ userStakes["user1"] = <<>> /\ stake("user1", 1000, 7 * Day)
    \/ unstake("user1", 0)
    \/ proposalCount = 0 /\ createProposal("user1", "Add city X")
    \/ vote("user1", 0, TRUE)
    \/ executeProposal("user2", 0)
    \/ oracleAddress = NoAddr /\ setOracleAddress(Owner, "user2")
    \/ cities[0].lastUpdated = 0 /\ updateCityPrice("user2", 0, 1300001)
    \/ cities[0].weight = 20 /\ updateCityWeight(Owner, 0, 25)
    \/ toggleCityStatus(Owner, 0)
    \/ pause(Owner)
    \/ unpause(Owner)
    \/ \E t \in PauseScopeTimes : advanceTime(t)

SpecPauseScope == Init /\ [][NextPauseScope]_vars

\* -----------------------------------------------------------------
\* Properties
\* -----------------------------------------------------------------

Ok(call) == call.result = "ok"

\* The balances after moving value from one holder to another, as a net effect
NetMove(bal, from, to, value) ==
    [h \in Holders |->
        bal[h] - (IF h = from THEN value ELSE 0) + (IF h = to THEN value ELSE 0)]

\* C1 - Conservation: under any sequence of transfer / transferFrom calls the
\* balances always sum to the supply minted at deployment; a successful
\* transfer of `amount` takes exactly `amount` from the sender and gives
\* exactly `amount` to the recipient (no fee); a failed one changes no balance.
C1_Conservation ==
    /\ [](SumOver(balances, Holders) = TOTAL_SUPPLY /\ totalSupply = TOTAL_SUPPLY)
    /\ [][/\ (lastCall'.op = "transfer" /\ Ok(lastCall')) =>
                balances' = NetMove(balances, lastCall'.caller, lastCall'.a1,
                                    lastCall'.x)
          /\ (lastCall'.op = "transferFrom" /\ Ok(lastCall')) =>
                balances' = NetMove(balances, lastCall'.a1, lastCall'.a2,
                                    lastCall'.x)
          /\ (lastCall'.op \in {"transfer", "transferFrom"} /\ ~Ok(lastCall')) =>
                balances' = balances]_vars

\* C1 witness: a spender has moved 2000 tokens of another account to the
\* staking contract by transferFrom while holding nothing itself
C1_Witness ==
    /\ lastCall.op = "transferFrom" /\ Ok(lastCall)
    /\ lastCall.x = 2000 /\ lastCall.a1 = "user2" /\ lastCall.a2 = StakingAddr
    /\ balances[StakingAddr] = 2000
    /\ balances["user1"] = 0

\* The sum of the amounts of an account's active stake entries
ActiveAmount(u) ==
    LET n == Len(userStakes[u]) IN
    SumOver([i \in 1 .. n |-> IF userStakes[u][i].isActive
                              THEN userStakes[u][i].amount ELSE 0], 1 .. n)

\* C2 - Staking totals: after any sequence of stake, unstake, emergencyUnstake
\* and updatePeriodMultiplier calls, every account's userTotalStaked is the sum
\* of the amounts of its active entries, and totalStaked is the sum of
\* userTotalStaked over all accounts.
C2_StakingTotals ==
    /\ \A u \in Accounts : userTotalStaked[u] = ActiveAmount(u)
    /\ totalStaked = SumOver(userTotalStaked, Accounts)

\* C2 witness: an emergency withdrawal has just left one account with one
\* withdrawn and one active entry while a second account also has a stake
C2_Witness ==
    /\ lastCall.op = "emergencyUnstake" /\ Ok(lastCall)
    /\ Len(userStakes["user1"]) = 2
    /\ ~userStakes["user1"][1].isActive
    /\ userStakes["user1"][2].isActive
    /\ userTotalStaked[Owner] = 1000
    /\ totalStaked = 2000
    /\ periodMultipliers[7 * Day] = 150

Unlock(st) == st.stakingTime + st.lockPeriod

StakingLedgerUnchanged ==
    /\ userStakes' = userStakes
    /\ userTotalStaked' = userTotalStaked
    /\ userGovernanceWeight' = userGovernanceWeight
    /\ totalStaked' = totalStaked
    /\ totalStakers' = totalStakers
    /\ balances' = balances

\* A step is an unstake call by the staker on one of its still-active entries
UnstakeOfActive(i) ==
    /\ lastCall'.op = "unstake"
    /\ lastCall'.x = i
    /\ i < Len(userStakes[lastCall'.caller])
    /\ StakeAt(lastCall'.caller, i).isActive

\* C3 as claimed - Lock enforcement: unstake of an active stake before
\* stakingTime + lockPeriod fails with 'Lock period not expired' and changes
\* nothing; every unstake call at or after that instant succeeds.
C3_LockEnforcement_AsClaimed ==
    [][\A i \in StakeIndices : UnstakeOfActive(i) =>
          IF now < Unlock(StakeAt(lastCall'.caller, i))
          THEN /\ lastCall'.result = "GPRETStaking: Lock period not expired"
               /\ StakingLedgerUnchanged
          ELSE Ok(lastCall')]_vars

\* C3 amended - before stakingTime + lockPeriod unstake of an active stake
\* fails with 'Lock period not expired' and changes nothing; at or after that
\* instant (the instant included) it succeeds whenever the token ledger is not
\* paused, and while the token is paused it fails with the token's
\* EnforcedPause and changes nothing.
C3_LockEnforcement ==
    [][\A i \in StakeIndices : UnstakeOfActive(i) =>
          IF now < Unlock(StakeAt(lastCall'.caller, i))
          THEN /\ lastCall'.result = "GPRETStaking: Lock period not expired"
               /\ StakingLedgerUnchanged
          ELSE IF paused
          THEN /\ lastCall'.result = "EnforcedPause"
               /\ StakingLedgerUnchanged
          ELSE /\ Ok(lastCall')
               /\ ~userStakes'[lastCall'.caller][i + 1].isActive]_vars

\* C3 witness: an unstake has succeeded exactly at stakingTime + lockPeriod
\* of an entry staked on day 1, while the account's other entry is still locked
C3_Witness ==
    /\ lastCall.op = "unstake" /\ Ok(lastCall)
    /\ Len(userStakes["user1"]) = 2
    /\ LET st == StakeAt("user1", lastCall.x)
           other == StakeAt("user1", 1 - lastCall.x)
       IN /\ ~st.isActive
          /\ st.stakingTime = 1 * Day
          /\ now = Unlock(st)
          /\ other.isActive
          /\ now < Unlock(other)

\* What the staking contract owes: the amounts of all active entries
ActiveTotal == SumOver([u \in Accounts |-> ActiveAmount(u)], Accounts)

\* C4 - Zero-reward round trip: stake(amount, period) moves exactly `amount`
\* from the staker to the staking contract and records it in the new entry; a
\* successful unstake of an entry moves exactly the entry's recorded amount
\* back to the staker, whatever happened to the multiplier table in between;
\* neither changes any other balance or the total supply, and the staking
\* contract always holds exactly the amounts of the entries still active.
C4_ZeroRewardRoundTrip ==
    /\ [](balances[StakingAddr] = ActiveTotal /\ totalSupply = TOTAL_SUPPLY)
    /\ [][/\ (lastCall'.op = "stake" /\ Ok(lastCall')) =>
               LET c == lastCall'.caller
                   n == Len(userStakes'[c])
               IN /\ n = Len(userStakes[c]) + 1
                  /\ userStakes'[c][n].amount = lastCall'.x
                  /\ balances' = NetMove(balances, c, StakingAddr, lastCall'.x)
          /\ (lastCall'.op = "unstake" /\ Ok(lastCall')) =>
               LET c == lastCall'.caller
                   st == StakeAt(c, lastCall'.x)
               IN /\ st.isActive
                  /\ ~userStakes'[c][lastCall'.x + 1].isActive
                  /\ balances' = NetMove(balances, StakingAddr, c, st.amount)]_vars

\* C4 witness: a stake made under multiplier 100 has been withdrawn by unstake
\* after the multiplier of its period was raised to 150, and the staker holds
\* again the 1000 tokens it held before
C4_Witness ==
    /\ lastCall.op = "unstake" /\ Ok(lastCall) /\ lastCall.caller = "user1"
    /\ periodMultipliers[7 * Day] = 150
    /\ Len(userStakes["user1"]) = 1
    /\ userStakes["user1"][1].governanceWeight = 1000
    /\ balances["user1"] = 1000
    /\ balances[StakingAddr] = 0

\* C8 - Stake-weight determinism: the table holds 100, 110, 125, 150, 200 for
\* 7, 30, 90, 180, 365 days at deployment, and every successful
\* stake(amount, lockPeriod) appends an active entry whose governanceWeight is
\* floor(amount * periodMultipliers[lockPeriod] / 100) with the multiplier in
\* force at the call.
C8_StakeWeight ==
    /\ [](lastCall.op = "constructor" =>
            /\ periodMultipliers[7 * Day] = 100
            /\ periodMultipliers[30 * Day] = 110
            /\ periodMultipliers[90 * Day] = 125
            /\ periodMultipliers[180 * Day] = 150
            /\ periodMultipliers[365 * Day] = 200)
    /\ [][(lastCall'.op = "stake" /\ Ok(lastCall')) =>
            LET c == lastCall'.caller
                n == Len(userStakes'[c])
                amount == lastCall'.x
                lockPeriod == lastCall'.y
            IN /\ n = Len(userStakes[c]) + 1
               /\ userStakes'[c][n].amount = amount
               /\ userStakes'[c][n].lockPeriod = lockPeriod
               /\ userStakes'[c][n].isActive
               /\ \E q \in 0 .. amount * MAX_MULTIPLIER :
                     /\ q = userStakes'[c][n].governanceWeight
                     /\ q * 100 <= amount * periodMultipliers[lockPeriod]
                     /\ amount * periodMultipliers[lockPeriod] < (q + 1) * 100]_vars

\* C8 witness: 7 tokens staked for 30 days weigh floor(7 * 110 / 100) = 7 and
\* 7 tokens staked for 7 days under an updated multiplier 333 weigh 23
C8_Witness ==
    /\ Len(userStakes[Owner]) = 2
    /\ userStakes[Owner][1].amount = 7
    /\ userStakes[Owner][1].lockPeriod = 30 * Day
    /\ userStakes[Owner][1].governanceWeight = 7
    /\ userStakes[Owner][2].amount = 7
    /\ userStakes[Owner][2].lockPeriod = 7 * Day
    /\ userStakes[Owner][2].governanceWeight = 23

\* The numerator and denominator of the weighted mean over the active cities
ActiveNumerator(cs) ==
    SumOver([i \in CityIds |-> IF cs[i].isActive
                               THEN cs[i].priceIndex * cs[i].weight ELSE 0], CityIds)

ActiveDenominator(cs) ==
    SumOver([i \in CityIds |-> IF cs[i].isActive THEN cs[i].weight ELSE 0], CityIds)

SomeCityActive(cs) == \E i \in CityIds : cs[i].isActive

\* index = floor(numerator / denominator), stated without division
IsFloorOfMean(index, cs) ==
    /\ index * ActiveDenominator(cs) <= ActiveNumerator(cs)
    /\ ActiveNumerator(cs) < (index + 1) * ActiveDenominator(cs)

C7_ZeroWeightState ==
    [][/\ (/\ lastCall'.op = "toggleCityStatus"
           /\ lastCall'.caller = Owner
           /\ lastCall'.x < cityCount
           /\ \A i \in CityIds : cities[i].isActive <=> i = lastCall'.x) =>
              /\ Ok(lastCall')
              /\ ~SomeCityActive(cities')
              /\ globalPriceIndex' = globalPriceIndex
              /\ lastUpdateTimestamp' = lastUpdateTimestamp
       /\ ~SomeCityActive(cities') =>
              /\ globalPriceIndex' = globalPriceIndex
              /\ lastUpdateTimestamp' = lastUpdateTimestamp
       /\ (~SomeCityActive(cities) /\ SomeCityActive(cities')) =>
              /\ lastCall'.op = "toggleCityStatus"
              /\ lastUpdateTimestamp' = now
              /\ IsFloorOfMean(globalPriceIndex', cities')]_vars

\* C7 witness: every city is inactive on day 2 and the index still carries the
\* value and the timestamp of its last recomputation on day 1
C7_Witness ==
    /\ ~SomeCityActive(cities)
    /\ lastCall.op = "toggleCityStatus" /\ Ok(lastCall)
    /\ now = 2 * Day
    /\ lastUpdateTimestamp = 1 * Day
    /\ globalPriceIndex = 1300001

\* A step is a vote call on the existing proposal id
VoteOn(id) ==
    /\ lastCall'.op = "vote"
    /\ lastCall'.x = id
    /\ id < proposalCount

TalliesUnchanged(id) ==
    /\ proposals'[id].forVotes = proposals[id].forVotes
    /\ proposals'[id].againstVotes = proposals[id].againstVotes

\* What C5 says of every step, but for the reason a repeated vote fails with:
\* the voted flags only grow; a tally changes only in the vote that records a
\* new voter; a repeated vote changes nothing; and a first vote inside the
\* window by a token holder succeeds whatever the account did on other
\* proposals.
SingleVoteStep(id) ==
    /\ proposals[id].hasVoted \subseteq proposals'[id].hasVoted
    /\ ~TalliesUnchanged(id) =>
          /\ VoteOn(id)
          /\ lastCall'.caller \notin proposals[id].hasVoted
          /\ proposals'[id].hasVoted = proposals[id].hasVoted \cup {lastCall'.caller}
    /\ (VoteOn(id) /\ lastCall'.caller \in proposals[id].hasVoted) =>
          /\ ~Ok(lastCall')
          /\ proposals' = proposals
    /\ (/\ VoteOn(id)
        /\ lastCall'.caller \notin proposals[id].hasVoted
        /\ now >= proposals[id].startTime
        /\ now <= proposals[id].endTime
        /\ balances[lastCall'.caller] > 0) =>
          /\ Ok(lastCall')
          /\ lastCall'.caller \in proposals'[id].hasVoted

\* C5 as claimed - Single vote: at most one vote is recorded per (proposal,
\* account); every later vote call of an account that has voted fails with
\* 'Already voted' and changes neither tally; the account can still vote once
\* on each other proposal.
C5_SingleVote_AsClaimed ==
    [][\A id \in ProposalIds :
          /\ SingleVoteStep(id)
          /\ (VoteOn(id) /\ lastCall'.caller \in proposals[id].hasVoted) =>
                lastCall'.result = "Already voted"]_vars

\* C5 amended - as claimed, except that the later vote call fails with
\* 'Already voted' only while the voting window is open (now <= endTime);
\* after endTime it fails with 'Voting ended'.
C5_SingleVote ==
    [][\A id \in ProposalIds :
          /\ SingleVoteStep(id)
          /\ (VoteOn(id) /\ lastCall'.caller \in proposals[id].hasVoted) =>
                lastCall'.result = IF now <= proposals[id].endTime
                                   THEN "Already voted" ELSE "Voting ended"]_vars

\* C5 witness: user1 has voted on both proposals, and its second vote on
\* proposal 0, with the other support value, has just failed
C5_Witness ==
    /\ proposalCount = 2
    /\ "user1" \in proposals[0].hasVoted
    /\ "user1" \in proposals[1].hasVoted
    /\ proposals[0].forVotes = 1000
    /\ proposals[0].againstVotes = 0
    /\ lastCall.op = "vote" /\ lastCall.caller = "user1"
    /\ lastCall.x = 0 /\ lastCall.y = 0
    /\ lastCall.result = "Already voted"

StakedBeforeVoting(u, id) ==
    \A i \in 1..Len(userStakes[u]) :
        /\ userStakes[u][i].stakingTime < proposals[id].startTime
        /\ userStakes[u][i].lockPeriod = 180 * Day

\* C10 - Staked-weight voting as the integration test asserts it: two
\* accounts with equal token holdings stake 2000 (user1) and 1000 (user2)
\* for the same lock period, then user1 votes for and user2 against the
\* proposal; the tally for ends larger than the tally against.
C10_StakedWeightVoting ==
    (/\ proposalCount = 1
     /\ Holdings("user1") = Holding
     /\ Holdings("user2") = Holding
     /\ userTotalStaked["user1"] = 2000
     /\ userTotalStaked["user2"] = 1000
     /\ StakedBeforeVoting("user1", 0)
     /\ StakedBeforeVoting("user2", 0)
     /\ proposals[0].hasVoted = {"user1", "user2"}
     /\ proposals[0].forVotes > 0
     /\ lastCall.op = "vote" /\ lastCall.caller = "user2"
     /\ lastCall.x = 0 /\ lastCall.y = 0
     /\ Ok(lastCall))
    => proposals[0].forVotes > proposals[0].againstVotes

BalanceChanging(call) == call.op \in {"transfer", "transferFrom", "burn"}

\* Who pays in a balance-changing call
Payer(call) == IF call.op = "transferFrom" THEN call.a1 ELSE call.caller

\* The preconditions of a balance-changing call other than the halt
NormalPreconditions(call) ==
    /\ balances[Payer(call)] >= call.x
    /\ call.op = "transferFrom" => allowances[call.a1][call.caller] >= call.x

\* What C11 says of every step, but for the error of a halted call: only the
\* owner changes the halt flag; a halted balance-changing call fails and
\* changes no balance; when not halted such a call succeeds exactly under its
\* normal preconditions.
EmergencyHaltStep ==
    /\ (lastCall'.op \in {"pause", "unpause"} /\ lastCall'.caller # Owner) =>
          /\ ~Ok(lastCall')
          /\ paused' = paused
    /\ (lastCall'.op = "pause" /\ lastCall'.caller = Owner /\ ~paused) =>
          Ok(lastCall') /\ paused'
    /\ (lastCall'.op = "unpause" /\ lastCall'.caller = Owner /\ paused) =>
          Ok(lastCall') /\ ~paused'
    /\ paused' # paused =>
          /\ lastCall'.op = (IF paused THEN "unpause" ELSE "pause")
          /\ lastCall'.caller = Owner
    /\ (BalanceChanging(lastCall') /\ paused) =>
          /\ ~Ok(lastCall')
          /\ balances' = balances
          /\ totalSupply' = totalSupply
    /\ (BalanceChanging(lastCall') /\ ~paused) =>
          (Ok(lastCall') <=> NormalPreconditions(lastCall'))

\* C11 as claimed - Emergency halt: only the owner can pause or unpause;
\* while the token ledger is paused every transfer, transferFrom and burn
\* fails with the pause error and leaves all balances unchanged; after
\* unpause the same operations succeed again under their normal
\* preconditions.
C11_EmergencyHalt_AsClaimed ==
    [][/\ EmergencyHaltStep
       /\ (BalanceChanging(lastCall') /\ paused) =>
             lastCall'.result = "EnforcedPause"]_vars

\* C11 amended - as claimed, except that a paused transferFrom whose allowance
\* does not cover the amount fails with the allowance error, which is checked
\* before the halt; every other paused call fails with the pause error.
C11_EmergencyHalt ==
    [][/\ EmergencyHaltStep
       /\ (BalanceChanging(lastCall') /\ paused) =>
             lastCall'.result =
                IF /\ lastCall'.op = "transferFrom"
                   /\ allowances[lastCall'.a1][lastCall'.caller] < lastCall'.x
                THEN "ERC20InsufficientAllowance"
                ELSE "EnforcedPause"]_vars

\* C11 witness: the ledger is paused and a transferFrom within the allowance
\* and the balance has just been refused by the halt, after user1 had
\* received tokens
C11_Witness ==
    /\ paused
    /\ balances["user1"] = 1000
    /\ lastCall.op = "transferFrom"
    /\ lastCall.x = 1000
    /\ allowances[lastCall.a1][lastCall.caller] >= 1000
    /\ lastCall.result = "EnforcedPause"

PriceStateUnchanged ==
    /\ cities' = cities
    /\ globalPriceIndex' = globalPriceIndex
    /\ lastUpdateTimestamp' = lastUpdateTimestamp

\* C12 - Authorized price updates: the oracle is the address the owner set
\* last through setOracleAddress (no address before the first set);
\* updateCityPrice(cityId, newPrice) succeeds exactly when the caller is that
\* address, the city exists and is active and newPrice > 0, and then writes
\* the price; in every other case it fails - unauthorized, then invalid city,
\* then invalid price - and leaves every city, lastUpdated and
\* globalPriceIndex unchanged.
C12_AuthorizedPriceUpdates ==
    [][LET c == lastCall'.caller
           id == lastCall'.x
           price == lastCall'.y
       IN
       /\ oracleAddress' # oracleAddress =>
             /\ lastCall'.op = "setOracleAddress"
             /\ lastCall'.caller = Owner
             /\ oracleAddress' = lastCall'.a1
       /\ (/\ lastCall'.op = "setOracleAddress"
           /\ lastCall'.caller = Owner
           /\ lastCall'.a1 # NoAddr) => oracleAddress' = lastCall'.a1
       /\ lastCall'.op = "updateCityPrice" =>
             /\ Ok(lastCall') <=>
                   /\ c = oracleAddress
                   /\ id < cityCount
                   /\ cities[id].isActive
                   /\ price > 0
             /\ Ok(lastCall') =>
                   /\ cities'[id].priceIndex = price
                   /\ cities'[id].lastUpdated = now
                   /\ \A j \in CityIds \ {id} : cities'[j] = cities[j]
             /\ ~Ok(lastCall') => PriceStateUnchanged
             /\ c # oracleAddress =>
                   lastCall'.result = "Only oracle can update prices"
             /\ (c = oracleAddress /\ (id >= cityCount \/ ~cities[id].isActive)) =>
                   lastCall'.result \in {"Invalid city ID", "City not active"}
             /\ (c = oracleAddress /\ id < cityCount /\ cities[id].isActive
                 /\ price = 0) =>
                   lastCall'.result = "Invalid price index"]_vars

\* C12 witness: prices were pushed on day 0 and on day 1, the oracle is now
\* user2, and user1 has just been refused on an active city with a valid
\* price
C12_Witness ==
    /\ oracleAddress = "user2"
    /\ cities[0].priceIndex = 500000 /\ cities[0].lastUpdated = 0
    /\ cities[1].priceIndex = 1300001 /\ cities[1].lastUpdated = 1 * Day
    /\ cities[0].isActive
    /\ lastCall.op = "updateCityPrice" /\ lastCall.caller = "user1"
    /\ lastCall.x = 0 /\ lastCall.y = 1300001
    /\ lastCall.result = "Only oracle can update prices"

\* 0.1% of the total supply
ThresholdFraction == totalSupply \div 1000

\* C13 - Proposal threshold: createProposal fails with 'Insufficient tokens',
\* creates no proposal and leaves the proposal counter unchanged whenever the
\* caller's balance is below 0.1% of the total supply; with an empty
\* description it fails ('Empty description' when the balance suffices); a
\* caller holding at least 0.1% of the total supply with a non-empty
\* description succeeds.
C13_ProposalThreshold ==
    [][lastCall'.op = "createProposal" =>
          LET c == lastCall'.caller
              empty == lastCall'.x = 0
          IN
          /\ balances[c] < ThresholdFraction =>
                /\ lastCall'.result = "Insufficient tokens"
                /\ proposals' = proposals
                /\ proposalCount' = proposalCount
          /\ empty =>
                /\ ~Ok(lastCall')
                /\ proposals' = proposals
                /\ proposalCount' = proposalCount
          /\ (empty /\ balances[c] >= ThresholdFraction) =>
                lastCall'.result = "Empty description"
          /\ (~empty /\ balances[c] >= ThresholdFraction) =>
                Ok(lastCall')]_vars

\* The ids in use are exactly 0 .. proposalCount - 1, each slot carrying its
\* own id and a seven-day window; the slots beyond are untouched
IdsSequential ==
    \A id \in ProposalIds :
        IF id < proposalCount
        THEN /\ proposals[id].id = id
             /\ proposals[id].proposer # NoAddr
             /\ proposals[id].endTime = proposals[id].startTime + 7 * Day
        ELSE proposals[id] = EmptyProposal

C15_VotingWindow ==
    [][\A id \in ProposalIds : VoteOn(id) =>
          LET c == lastCall'.caller IN
          /\ now < proposals[id].startTime =>
                /\ lastCall'.result = "Voting not started"
                /\ proposals' = proposals
          /\ now > proposals[id].endTime =>
                /\ lastCall'.result = "Voting ended"
                /\ proposals' = proposals
          /\ (/\ proposals[id].startTime <= now
              /\ now <= proposals[id].endTime
              /\ c \notin proposals[id].hasVoted
              /\ balances[c] > 0) =>
                /\ Ok(lastCall')
                /\ proposals'[id].hasVoted = proposals[id].hasVoted \cup {c}
                /\ proposals'[id].forVotes + proposals'[id].againstVotes =
                      proposals[id].forVotes + proposals[id].againstVotes + balances[c]]_vars

\* C15 witness: proposal 0, open from day 1 to day 8, holds the votes of both
\* voters, the last of them cast at the very instant the window closes, while
\* proposal 1, created a day later, is still open
C15_Witness ==
    /\ proposalCount = 2
    /\ proposals[0].startTime = 1 * Day
    /\ now = proposals[0].endTime
    /\ now < proposals[1].endTime
    /\ proposals[0].hasVoted = {"user1", "user2"}
    /\ proposals[0].forVotes = 1000 /\ proposals[0].againstVotes = 1000
    /\ lastCall.op = "vote" /\ lastCall.x = 0 /\ Ok(lastCall)

ExecuteOn(id) ==
    /\ lastCall'.op = "executeProposal"
    /\ lastCall'.x = id
    /\ id < proposalCount

\* C16 - Execute exactly once: executeProposal(id) fails with 'Voting not
\* ended' at every time now <= endTime; the first call at a time now > endTime
\* succeeds for any caller, sets executed = true and passed = (forVotes >
\* againstVotes), so a tie or a proposal without votes is recorded as not
\* passed; every later call fails with 'Already executed' and changes
\* nothing; the outcome of an executed proposal never changes.
C16_ExecuteExactlyOnce ==
    [][\A id \in ProposalIds :
          /\ ExecuteOn(id) =>
                /\ now <= proposals[id].endTime =>
                      /\ lastCall'.result = "Voting not ended"
                      /\ proposals' = proposals
                /\ (now > proposals[id].endTime /\ ~proposals[id].executed) =>
                      /\ Ok(lastCall')
                      /\ proposals'[id].executed
                      /\ proposals'[id].passed <=>
                            proposals[id].forVotes > proposals[id].againstVotes
                      /\ proposals[id].forVotes = proposals[id].againstVotes =>
                            ~proposals'[id].passed
                      /\ TalliesUnchanged(id)
                      /\ \A j \in ProposalIds \ {id} : proposals'[j] = proposals[j]
                /\ (now > proposals[id].endTime /\ proposals[id].executed) =>
                      /\ lastCall'.result = "Already executed"
                      /\ proposals' = proposals
          /\ proposals[id].executed =>
                /\ proposals'[id].executed
                /\ proposals'[id].passed = proposals[id].passed
          /\ proposals'[id].executed # proposals[id].executed =>
                ExecuteOn(id) /\ Ok(lastCall')]_vars

\* C16 witness: proposal 0 ended in a tie and was executed as not passed,
\* proposal 1 was executed as passed, and a second execution of proposal 0,
\* called by the owner, has just been refused
C16_Witness ==
    /\ proposalCount = 2
    /\ proposals[0].forVotes = 1000 /\ proposals[0].againstVotes = 1000
    /\ proposals[0].executed /\ ~proposals[0].passed
    /\ proposals[1].forVotes = 1000 /\ proposals[1].againstVotes = 0
    /\ proposals[1].executed /\ proposals[1].passed
    /\ lastCall.op = "executeProposal" /\ lastCall.x = 0
    /\ lastCall.caller = Owner
    /\ lastCall.result = "Already executed"

\* The conditions under which C17 says a stake request fails
StakeRefused(c, amount, lockPeriod) ==
    \/ amount = 0
    \/ lockPeriod < 7 * Day
    \/ lockPeriod > 365 * Day
    \/ periodMultipliers[lockPeriod] = 0
    \/ stakingPaused
    \/ balances[c] < amount
    \/ allowances[c][StakingAddr] < amount

\* C17 - Stake preconditions: stake(amount, lockPeriod) fails and leaves the
\* caller's stake list, userTotalStaked, userGovernanceWeight, totalStaked,
\* totalStakers and all token balances unchanged when amount = 0, when
\* lockPeriod is outside [7 days, 365 days], when lockPeriod has no
\* configured multiplier, when the staking contract is paused, or when the
\* caller's balance or allowance to the staking contract is below amount;
\* with the token ledger running, every other stake request succeeds.
C17_StakePreconditions ==
    [][lastCall'.op = "stake" =>
          LET c == lastCall'.caller
              amount == lastCall'.x
              lockPeriod == lastCall'.y
          IN
          /\ StakeRefused(c, amount, lockPeriod) =>
                /\ ~Ok(lastCall')
                /\ userStakes' = userStakes
                /\ userTotalStaked' = userTotalStaked
                /\ userGovernanceWeight' = userGovernanceWeight
                /\ totalStaked' = totalStaked
                /\ totalStakers' = totalStakers
                /\ balances' = balances
                /\ allowances' = allowances
          /\ (~StakeRefused(c, amount, lockPeriod) /\ ~paused) =>
                /\ Ok(lastCall')
                /\ Len(userStakes'[c]) = Len(userStakes[c]) + 1]_vars

\* C17 witness: user1, who holds one stake and still has the balance and the
\* allowance for another, has just been refused a lock period of 15 days,
\* inside the allowed range but without a multiplier
C17_Witness ==
    /\ userTotalStaked["user1"] = 1000
    /\ ~stakingPaused
    /\ lastCall.op = "stake" /\ lastCall.caller = "user1"
    /\ lastCall.x = 1000 /\ lastCall.y = 15 * Day
    /\ balances["user1"] >= 1000
    /\ allowances["user1"][StakingAddr] >= 1000
    /\ lastCall.result = "GPRETStaking: Unsupported lock period"

\* The entries that a step turns from active to inactive
Withdrawn ==
    {e \in Accounts \X (1 .. MaxStakes) :
        /\ e[2] <= Len(userStakes[e[1]])
        /\ userStakes[e[1]][e[2]].isActive
        /\ ~userStakes'[e[1]][e[2]].isActive}

\* C18 - Unstake preconditions: unstake(stakeIndex) fails with 'Invalid stake
\* index' when stakeIndex >= the caller's number of entries and with 'Stake
\* not active' when that entry was already withdrawn, changing no state;
\* entries are never removed or reactivated, the staking contract pays out
\* only the amount of the one entry a step withdraws, so each entry is paid
\* at most once, and an unstake touches only the caller's own entry.
C18_UnstakePreconditions ==
    [][/\ lastCall'.op = "unstake" =>
             LET c == lastCall'.caller
                 i == lastCall'.x
             IN
             /\ i >= Len(userStakes[c]) =>
                   /\ lastCall'.result = "GPRETStaking: Invalid stake index"
                   /\ StakingLedgerUnchanged
             /\ (i < Len(userStakes[c]) /\ ~StakeAt(c, i).isActive) =>
                   /\ lastCall'.result = "GPRETStaking: Stake not active"
                   /\ StakingLedgerUnchanged
             /\ Ok(lastCall') =>
                   /\ Withdrawn = {<<c, i + 1>>}
                   /\ \A u \in Accounts \ {c} :
                         /\ userStakes'[u] = userStakes[u]
                         /\ userTotalStaked'[u] = userTotalStaked[u]
                         /\ balances'[u] = balances[u]
       /\ \A u \in Accounts :
             /\ Len(userStakes'[u]) >= Len(userStakes[u])
             /\ \A j \in 1 .. Len(userStakes[u]) :
                   /\ userStakes'[u][j].amount = userStakes[u][j].amount
                   /\ ~userStakes[u][j].isActive => ~userStakes'[u][j].isActive
       /\ balances'[StakingAddr] < balances[StakingAddr] =>
             \E e \in Withdrawn :
                /\ Withdrawn = {e}
                /\ lastCall'.op \in {"unstake", "emergencyUnstake"}
                /\ balances[StakingAddr] - balances'[StakingAddr] =
                      userStakes[e[1]][e[2]].amount
                /\ balances'[e[1]] = balances[e[1]] + userStakes[e[1]][e[2]].amount]_vars

\* C18 witness: user1 holds two entries, the first withdrawn and the second
\* still active, and its repeated unstake of the first, with the lock
\* expired, has just been refused
C18_Witness ==
    /\ Len(userStakes["user1"]) = 2
    /\ ~userStakes["user1"][1].isActive
    /\ userStakes["user1"][2].isActive
    /\ now >= Unlock(userStakes["user1"][1])
    /\ lastCall.op = "unstake" /\ lastCall.caller = "user1" /\ lastCall.x = 0
    /\ lastCall.result = "GPRETStaking: Stake not active"

HasActiveStake(stakes, u) ==
    \E j \in 1 .. Len(stakes[u]) : stakes[u][j].isActive

ActiveStakers(stakes) == {u \in Accounts : HasActiveStake(stakes, u)}

\* C19 - Staker count: in every reachable state totalStakers is the number
\* of accounts with at least one active entry; it grows by one exactly when
\* an account without an active stake stakes, stays the same on further
\* stakes of that account, and drops by one exactly when an account's last
\* active entry is withdrawn by unstake or emergencyUnstake.
C19_StakerCount ==
    /\ [](totalStakers = Cardinality(ActiveStakers(userStakes)))
    /\ [][/\ (lastCall'.op = "stake" /\ Ok(lastCall')) =>
                totalStakers' =
                   IF HasActiveStake(userStakes, lastCall'.caller)
                   THEN totalStakers ELSE totalStakers + 1
          /\ totalStakers' > totalStakers =>
                /\ lastCall'.op = "stake" /\ Ok(lastCall')
                /\ ~HasActiveStake(userStakes, lastCall'.caller)
                /\ totalStakers' = totalStakers + 1
          /\ (lastCall'.op \in {"unstake", "emergencyUnstake"} /\ Ok(lastCall')) =>
                LET u == IF lastCall'.op = "unstake"
                         THEN lastCall'.caller ELSE lastCall'.a1
                IN
                totalStakers' =
                   IF HasActiveStake(userStakes', u)
                   THEN totalStakers ELSE totalStakers - 1
          /\ totalStakers' < totalStakers =>
                /\ lastCall'.op \in {"unstake", "emergencyUnstake"}
                /\ Ok(lastCall')
                /\ totalStakers' = totalStakers - 1]_vars

\* C19 witness: both accounts staked, user1 twice; user1 has just withdrawn
\* one of its two entries and still counts, so two stakers remain
C19_Witness ==
    /\ Len(userStakes["user1"]) = 2
    /\ ~userStakes["user1"][1].isActive
    /\ userStakes["user1"][2].isActive
    /\ HasActiveStake(userStakes, Owner)
    /\ totalStakers = 2
    /\ lastCall.op = "unstake" /\ lastCall.caller = "user1" /\ lastCall.x = 0
    /\ Ok(lastCall)

\* A step is an emergencyUnstake call on a still-active entry i of the user
EmergencyOnActive(i) ==
    /\ lastCall'.op = "emergencyUnstake"
    /\ lastCall'.x = i
    /\ i < Len(userStakes[lastCall'.a1])
    /\ StakeAt(lastCall'.a1, i).isActive

\* The bookkeeping of a withdrawal of entry i of user u, here in terms of the
\* entry's recorded amount and weight
WithdrawalOf(u, i) ==
    LET st == userStakes[u][i + 1] IN
    /\ ~userStakes'[u][i + 1].isActive
    /\ \A j \in 1 .. Len(userStakes[u]) :
          j # i + 1 => userStakes'[u][j] = userStakes[u][j]
    /\ Len(userStakes'[u]) = Len(userStakes[u])
    /\ userTotalStaked'[u] = userTotalStaked[u] - st.amount
    /\ userGovernanceWeight'[u] = userGovernanceWeight[u] - st.governanceWeight
    /\ totalStaked' = totalStaked - st.amount
    /\ balances' = NetMove(balances, StakingAddr, u, st.amount)

\* What C20 says of every step, but for the token's halt: an emergencyUnstake
\* by anyone but the owner fails and changes nothing, and a successful one
\* does the bookkeeping of unstake and pays the staked amount to the user.
EmergencyUnstakeStep ==
    /\ (lastCall'.op = "emergencyUnstake" /\ lastCall'.caller # Owner) =>
          /\ ~Ok(lastCall')
          /\ StakingLedgerUnchanged
    /\ (lastCall'.op = "emergencyUnstake" /\ Ok(lastCall')) =>
          /\ lastCall'.caller = Owner
          /\ EmergencyOnActive(lastCall'.x)
          /\ WithdrawalOf(lastCall'.a1, lastCall'.x)
    /\ (lastCall'.op = "unstake" /\ Ok(lastCall')) =>
          WithdrawalOf(lastCall'.caller, lastCall'.x)

\* C20 as claimed - Emergency unstake: emergencyUnstake(user, stakeIndex)
\* succeeds only for the owner; on an active stake it succeeds at any time,
\* also before stakingTime + lockPeriod, with the bookkeeping of unstake, and
\* returns exactly the staked amount to the user; a non-owner caller fails
\* and changes nothing.
C20_EmergencyUnstake_AsClaimed ==
    [][/\ EmergencyUnstakeStep
       /\ \A i \in StakeIndices :
             (EmergencyOnActive(i) /\ lastCall'.caller = Owner) =>
                Ok(lastCall')]_vars

\* C20 amended - as claimed, except that on an active stake the owner's call
\* succeeds at any time at which the token ledger is not paused; while the
\* token ledger is paused it fails with the token's pause error and changes
\* nothing.
C20_EmergencyUnstake ==
    [][/\ EmergencyUnstakeStep
       /\ \A i \in StakeIndices :
             (EmergencyOnActive(i) /\ lastCall'.caller = Owner) =>
                IF paused
                THEN /\ lastCall'.result = "EnforcedPause"
                     /\ StakingLedgerUnchanged
                ELSE Ok(lastCall')]_vars

\* C20 witness: on day 1 of a 30-day lock the owner has just withdrawn user1's
\* entry, and user1 - not the owner - holds the 1000 tokens again
C20_Witness ==
    /\ now = 1 * Day
    /\ Len(userStakes["user1"]) = 1
    /\ userStakes["user1"][1].stakingTime = 0
    /\ userStakes["user1"][1].lockPeriod = 30 * Day
    /\ ~userStakes["user1"][1].isActive
    /\ balances["user1"] = 1000
    /\ balances[Owner] = TOTAL_SUPPLY - 1000
    /\ userTotalStaked["user1"] = 0 /\ totalStakers = 0
    /\ lastCall.op = "emergencyUnstake" /\ lastCall.caller = Owner
    /\ lastCall.a1 = "user1" /\ Ok(lastCall)

\* C21 - Multiplier bounds: updatePeriodMultiplier(period, multiplier)
\* succeeds only for the owner and only when 7 days <= period <= 365 days and
\* 100 <= multiplier <= 500, and then writes the entry; otherwise it fails
\* and leaves the table unchanged; every non-zero entry of periodMultipliers
\* is always within [100, 500] and a supported period never becomes
\* unsupported again.
C21_MultiplierBounds ==
    /\ [](\A p \in PeriodKeys :
             periodMultipliers[p] # 0 =>
                (100 <= periodMultipliers[p] /\ periodMultipliers[p] <= 500))
    /\ [][/\ lastCall'.op = "updatePeriodMultiplier" =>
                LET period == lastCall'.x
                    multiplier == lastCall'.y
                IN
                /\ Ok(lastCall') <=>
                      /\ lastCall'.caller = Owner
                      /\ 7 * Day <= period /\ period <= 365 * Day
                      /\ 100 <= multiplier /\ multiplier <= 500
                /\ Ok(lastCall') =>
                      /\ periodMultipliers'[period] = multiplier
                      /\ \A q \in PeriodKeys \ {period} :
                            periodMultipliers'[q] = periodMultipliers[q]
                /\ ~Ok(lastCall') => periodMultipliers' = periodMultipliers
          /\ \A p \in PeriodKeys :
                periodMultipliers[p] > 0 => periodMultipliers'[p] > 0]_vars

\* C21 witness: the owner gave the 15-day period, unsupported at deployment,
\* the largest multiplier and the 7-day period the smallest, and an update to
\* 501 has just been refused
C21_Witness ==
    /\ periodMultipliers[15 * Day] = 500
    /\ periodMultipliers[7 * Day] = 100
    /\ periodMultipliers[6 * Day] = 0
    /\ periodMultipliers[366 * Day] = 0
    /\ lastCall.op = "updatePeriodMultiplier" /\ lastCall.caller = Owner
    /\ lastCall.x = 15 * Day /\ lastCall.y = 501
    /\ lastCall.result = "GPRETStaking: Invalid multiplier"

\* The sum of the weights stored in the active entries of a stake list
ActiveWeight(stakes, u) ==
    LET n == Len(stakes[u]) IN
    SumOver([i \in 1 .. n |-> IF stakes[u][i].isActive
                              THEN stakes[u][i].governanceWeight ELSE 0], 1 .. n)

\* C30 - Governance weight ledger: in every reachable state
\* userGovernanceWeight[account] is the sum of the stored governanceWeight of
\* the account's active entries; it grows by the new entry's weight on stake,
\* shrinks by the withdrawn entry's stored weight on unstake and
\* emergencyUnstake, whatever the multiplier table says by then, and is 0
\* once all of the account's stakes are withdrawn.
C30_GovernanceWeightLedger ==
    /\ [](\A u \in Accounts :
             /\ userGovernanceWeight[u] = ActiveWeight(userStakes, u)
             /\ ~HasActiveStake(userStakes, u) => userGovernanceWeight[u] = 0)
    /\ [][/\ (lastCall'.op = "stake" /\ Ok(lastCall')) =>
                LET c == lastCall'.caller
                    n == Len(userStakes'[c])
                IN
                /\ userGovernanceWeight'[c] =
                      userGovernanceWeight[c] + userStakes'[c][n].governanceWeight
                /\ \A u \in Accounts \ {c} :
                      userGovernanceWeight'[u] = userGovernanceWeight[u]
          /\ (lastCall'.op \in {"unstake", "emergencyUnstake"} /\ Ok(lastCall')) =>
                LET u == IF lastCall'.op = "unstake"
                         THEN lastCall'.caller ELSE lastCall'.a1
                    st == userStakes[u][lastCall'.x + 1]
                IN
                /\ userGovernanceWeight'[u] =
                      userGovernanceWeight[u] - st.governanceWeight
                /\ \A v \in Accounts \ {u} :
                      userGovernanceWeight'[v] = userGovernanceWeight[v]
          /\ userGovernanceWeight' # userGovernanceWeight =>
                lastCall'.op \in {"stake", "unstake", "emergencyUnstake"}
          /\ \A u \in Accounts : \A j \in 1 .. Len(userStakes[u]) :
                userStakes'[u][j].governanceWeight =
                   userStakes[u][j].governanceWeight]_vars

\* C30 witness: user1 holds one entry staked at multiplier 100 and one staked
\* after the multiplier was raised to 150, and the older one has just been
\* withdrawn, leaving exactly the weight of the younger
C30_Witness ==
    /\ Len(userStakes["user1"]) = 2
    /\ userStakes["user1"][1].governanceWeight = 1000
    /\ userStakes["user1"][2].governanceWeight = 1500
    /\ ~userStakes["user1"][1].isActive
    /\ userStakes["user1"][2].isActive
    /\ userGovernanceWeight["user1"] = 1500
    /\ periodMultipliers[7 * Day] = 150
    /\ lastCall.op \in {"unstake", "emergencyUnstake"} /\ lastCall.x = 0
    /\ Ok(lastCall)

\* C28 - Supply is fixed except for burns: in every reachable state the sum
\* of all balances equals totalSupply; no operation ever increases
\* totalSupply, and the only one that decreases it is a successful burn,
\* which reduces the burner's balance and totalSupply by exactly the burned
\* amount and changes no other balance.
C28_SupplyFixedExceptBurns ==
    /\ [](SumOver(balances, Holders) = totalSupply /\ totalSupply <= TOTAL_SUPPLY)
    /\ [][/\ totalSupply' <= totalSupply
          /\ totalSupply' # totalSupply =>
                lastCall'.op = "burn" /\ Ok(lastCall')
          /\ (lastCall'.op = "burn" /\ Ok(lastCall')) =>
                LET c == lastCall'.caller
                    v == lastCall'.x
                IN
                /\ balances[c] >= v
                /\ balances'[c] = balances[c] - v
                /\ totalSupply' = totalSupply - v
                /\ \A h \in Holders \ {c} : balances'[h] = balances[h]
          /\ (lastCall'.op = "burn" /\ ~Ok(lastCall')) =>
                balances' = balances]_vars

\* C28 witness: with 500 tokens of user1 in the staking contract and a vote
\* cast, user1 has just burned its other 500 tokens and the supply is 500
\* short of the minted one
C28_Witness ==
    /\ balances[StakingAddr] = 500
    /\ balances["user1"] = 0
    /\ totalSupply = TOTAL_SUPPLY - 500
    /\ proposals[0].hasVoted = {"user1"}
    /\ lastCall.op = "burn" /\ lastCall.caller = "user1" /\ lastCall.x = 500
    /\ Ok(lastCall)

\* C22 (as claimed): at no time are two collection cycles in flight at
\* once: a trigger that arrives while a cycle is running does not start a
\* second one
C22_SingleFlight == Len(running) <= 1

\* The active sources that answered with a price > 0
AnsweringSources(fetched) ==
    {s \in DOMAIN dataSources : dataSources[s].active /\ fetched[s] > 0}

\* prices holds one sample per answering source, in source order, and
\* nothing else
SamplesOfAnswering(prices, fetched) ==
    /\ Len(prices) = Cardinality(AnsweringSources(fetched))
    /\ \A s \in AnsweringSources(fetched) :
          \E k \in DOMAIN prices :
              /\ prices[k].source = dataSources[s].name
              /\ prices[k].price = fetched[s]
              /\ prices[k].weight = dataSources[s].weight
              /\ k = Cardinality({a \in AnsweringSources(fetched) : a <= s})

\* prices holds the three synthetic samples, each within 5% of the city's
\* base price
FallbackSamples(prices, city) ==
    /\ Len(prices) = Len(mockSources)
    /\ \A k \in DOMAIN prices :
          /\ prices[k].source = mockSources[k].name
          /\ prices[k].weight = mockSources[k].weight
          /\ 100 * prices[k].price >= 95 * getCityBasePrice(city)
          /\ 100 * prices[k].price <= 105 * getCityBasePrice(city)

\* The step collects the next city of the i-th cycle in flight
CollectsCity(i) ==
    /\ lastCall'.op = "collectCityPrice"
    /\ i \in DOMAIN running
    /\ Len(running') = Len(running)
    /\ Len(running'[i].cities) = Len(running[i].cities) + 1

\* C23: whatever the data sources do (answer, answer without a price,
\* throw), collecting a city adds one result to its cycle and no error; the
\* result's price list holds exactly the samples of the active sources that
\* answered with a price > 0, or the synthetic samples when none did; its
\* sources count is the length of that list and > 0; and a cycle in flight
\* never carries an error, so it goes on to the remaining cities
C23_SourceFailureIsolation ==
    /\ [](\A i \in DOMAIN running :
            /\ running[i].errors = <<>>
            /\ \A k \in DOMAIN running[i].cities :
                  /\ running[i].cities[k].id = k
                  /\ running[i].cities[k].sources > 0)
    /\ [][lastCall'.op = "collectCityPrice" =>
            \E i \in DOMAIN running :
                /\ CollectsCity(i)
                /\ \A j \in DOMAIN running \ {i} : running'[j] = running[j]
                /\ running'[i].errors = <<>>
                /\ SubSeq(running'[i].cities, 1, Len(running[i].cities))
                       = running[i].cities
                /\ LET r == running'[i].cities[Len(running'[i].cities)]
                       fetched == lastCall'.fetched
                   IN  /\ r.id = lastCall'.y
                       /\ r.sources = Len(r.prices)
                       /\ r.sources > 0
                       /\ IF AnsweringSources(fetched) # {}
                          THEN SamplesOfAnswering(r.prices, fetched)
                          ELSE FallbackSamples(r.prices, r.id)]_vars

\* A cycle has completed without error and with all cities collected
\* although no source produced a price for its first two cities: both carry
\* the synthetic samples
C23_Witness ==
    /\ lastCall.op = "collectAllPrices"
    /\ lastResults.errors = <<>>
    /\ Len(lastResults.cities) = Cardinality(CollectorCities)
    /\ lastResults.cities[1].prices[1].source = "Historical Data"
    /\ lastResults.cities[2].prices[1].source = "Historical Data"
    /\ lastResults.cities[1].sources = 3

\* h2 is h with the entry e appended, less the oldest entry when h was full
AppendedDroppingOldest(h, h2, e) ==
    IF Len(h) < HistoryLimit THEN h2 = Append(h, e)
    ELSE h2 = Append(Tail(h), e)

\* C24: the history never holds more than 100 entries; a cycle that
\* completes successfully appends exactly one summary (its timestamp, its
\* global index, its number of cities) after the entries already there and,
\* when the history was full, drops the oldest one; no other step removes,
\* reorders or rewrites an entry
C24_BoundedHistory ==
    /\ [](Len(priceHistory) <= HistoryLimit)
    /\ [][LET entry == [timestamp |-> lastResults'.timestamp,
                        globalIndex |-> lastResults'.globalIndex,
                        citiesCount |-> Len(lastResults'.cities)]
          IN  IF lastCall'.op = "collectAllPrices" /\ lastCall'.result = "ok"
              THEN /\ lastResults'.errors = <<>>
                   /\ AppendedDroppingOldest(priceHistory, priceHistory', entry)
              ELSE \/ priceHistory' = priceHistory
                   \/ /\ lastCall'.op = "collectAllPrices"
                      /\ AppendedDroppingOldest(priceHistory, priceHistory',
                                                entry)]_vars

\* The cycle started at instant 103 has completed: the history is full and
\* its oldest entry is no longer the first summary appended
C24_Witness ==
    /\ lastCall.op = "collectAllPrices"
    /\ lastCall.result = "ok"
    /\ lastCall.x = 103
    /\ Len(priceHistory) = HistoryLimit
    /\ priceHistory[1].timestamp > 2
    /\ priceHistory[HistoryLimit].timestamp = 103

\* updates.retryDelay of scripts/oracle/config.js, in seconds
RetryDelay == 5 * 60

\* C25 (as claimed): when the first scheduled cycle fails, the scheduler
\* retries it: the scheduled cycle that starts next starts retryDelay
\* (5 minutes) after the failure instead of at the next timer
C25_BoundedRetry ==
    [][(/\ lastCall'.op = "runScheduledUpdate"
        /\ running = <<>>
        /\ lastResults.trigger = "scheduled"
        /\ lastResults.timestamp = InitialDelay
        /\ lastResults.errors # <<>>)
       => now' = lastResults.errors[1].timestamp + RetryDelay]_vars

\* The step ends a cycle whose snapshot write failed
SnapshotWriteFailed ==
    /\ lastCall'.op = "collectAllPrices"
    /\ lastResults'.errors # <<>>
    /\ lastResults'.errors[Len(lastResults'.errors)].error = "save"

\* C26 (as claimed): a cycle whose snapshot write fails appends nothing to
\* the history, and a latest snapshot published before it stays in place:
\* readers are served what they were served before the cycle
C26_PersistenceFailureLocal ==
    [][SnapshotWriteFailed =>
          /\ priceHistory' = priceHistory
          /\ historyFile' = historyFile
          /\ latestFile.state = "valid" =>
                 /\ getLatestData' = getLatestData
                 /\ getLatestData' # Null]_vars

\* C27: updatePriceIndex succeeds only for the oracle and only when at
\* least 24 hours have passed since lastPriceUpdate, and then stores the new
\* index and the current time; lastPriceUpdate starts at the deployment time
\* and changes in no other way, so two successful updates are at least 24
\* hours apart; the oracle's earlier call fails with 'Update too frequent',
\* every failed call leaves index and lastPriceUpdate unchanged, and the
\* oracle's updateCityPrice of an active city with a price > 0 succeeds at
\* any time
C27_IndexRateLimit ==
    /\ [](lastPriceUpdate <= now)
    /\ [][/\ lastCall'.op = "updatePriceIndex" =>
               /\ Ok(lastCall') =>
                     /\ lastCall'.caller = priceOracle
                     /\ now >= lastPriceUpdate + 24 * 60 * 60
                     /\ realEstatePriceIndex' = lastCall'.x
                     /\ lastPriceUpdate' = now
               /\ (/\ lastCall'.caller = priceOracle
                   /\ now < lastPriceUpdate + 24 * 60 * 60)
                     => lastCall'.result = "GPRET: Update too frequent"
               /\ ~Ok(lastCall') =>
                     /\ realEstatePriceIndex' = realEstatePriceIndex
                     /\ lastPriceUpdate' = lastPriceUpdate
          /\ ~(lastCall'.op = "updatePriceIndex" /\ Ok(lastCall')) =>
               /\ lastPriceUpdate' = lastPriceUpdate
               /\ realEstatePriceIndex' = realEstatePriceIndex
          /\ (/\ lastCall'.op = "gatedUpdateCityPrice"
              /\ lastCall'.caller = priceOracle
              /\ cityData[lastCall'.x].isActive
              /\ lastCall'.y > 0)
                => /\ Ok(lastCall')
                   /\ cityData'[lastCall'.x].priceIndex = lastCall'.y]_vars

\* The oracle's update was refused as too frequent less than 24 hours after
\* an update of its own had succeeded
C27_Witness ==
    /\ lastCall.op = "updatePriceIndex"
    /\ lastCall.result = "GPRET: Update too frequent"
    /\ lastCall.caller = priceOracle
    /\ lastPriceUpdate > 0
    /\ realEstatePriceIndex # DEFAULT_INDEX

\* The ids of the active-city list that equal id
Occurrences(list, id) == {k \in DOMAIN list : list[k] = id}

\* C29: addCity succeeds only for the owner; a call for an id that already
\* exists or with weight 0 fails; a failed call leaves registry and active
\* list unchanged; a successful call makes the city active with the given
\* weight and the default price, changes no other city and appends the id
\* to the active list, in which every active city appears exactly once
C29_AddCity ==
    /\ [](\A id \in GatedCityIds :
            Cardinality(Occurrences(activeCityIds, id))
                = IF cityData[id].isActive THEN 1 ELSE 0)
    /\ [][lastCall'.op = "addCity" =>
            LET id == lastCall'.x
            IN  /\ Ok(lastCall') => lastCall'.caller = Owner
                /\ (cityData[id].isActive \/ lastCall'.y = 0) => ~Ok(lastCall')
                /\ ~Ok(lastCall') => /\ cityData' = cityData
                           /\ activeCityIds' = activeCityIds
                /\ Ok(lastCall') =>
                      /\ cityData'[id].isActive
                      /\ cityData'[id].weight = lastCall'.y
                      /\ cityData'[id].priceIndex = 1000
                      /\ \A other \in GatedCityIds \ {id} :
                            cityData'[other] = cityData[other]
                      /\ activeCityIds' = Append(activeCityIds, id)
                      /\ Cardinality(Occurrences(activeCityIds', id)) = 1]_vars

\* City 12 and then city 11 were added, and a second addCity for id 11 by
\* the owner has just been refused
C29_Witness ==
    /\ lastCall.op = "addCity"
    /\ lastCall.caller = Owner
    /\ lastCall.x = 11
    /\ lastCall.result = "GPRET: City already exists"
    /\ activeCityIds = [i \in 1 .. 12 |-> IF i = 11 THEN 12
                                          ELSE IF i = 12 THEN 11 ELSE i]
    /\ cityData[11].weight = 7

\* The stage of a proposal at time t: 0 Pending, 1 Active, 2 Ended,
\* 3 Executed
Stage(p, t) ==
    IF p.executed THEN 3
    ELSE IF t < p.startTime THEN 0
    ELSE IF t <= p.endTime THEN 1
    ELSE 2

\* The step records a vote on proposal id
RecordsVote(id) ==
    \/ proposals'[id].forVotes # proposals[id].forVotes
    \/ proposals'[id].againstVotes # proposals[id].againstVotes
    \/ proposals'[id].hasVoted # proposals[id].hasVoted

\* C31: a proposal's stage never moves backwards and Executed is entered
\* from Ended only; a vote is recorded only by a vote call made while the
\* proposal is Active, when executeProposal cannot succeed; executed never
\* returns to false, and once it is set the tallies and passed never change
C31_ForwardLifecycle ==
    [][\A id \in ProposalIds :
          id < proposalCount =>
             /\ Stage(proposals'[id], now') >= Stage(proposals[id], now)
             /\ (Stage(proposals'[id], now') = 3
                    /\ Stage(proposals[id], now) # 3)
                   => /\ Stage(proposals[id], now) = 2
                      /\ now > proposals[id].endTime
                      /\ lastCall'.op = "executeProposal"
             /\ RecordsVote(id) =>
                   /\ lastCall'.op = "vote" /\ lastCall'.x = id
                   /\ Stage(proposals[id], now) = 1
                   /\ ExecuteProposalError(id) # "ok"
                   /\ ~(now > proposals[id].endTime)
             /\ proposals[id].executed =>
                   /\ proposals'[id].executed
                   /\ proposals'[id].forVotes = proposals[id].forVotes
                   /\ proposals'[id].againstVotes = proposals[id].againstVotes
                   /\ proposals'[id].passed = proposals[id].passed]_vars

\* Proposal 0 received votes while Active and has just been executed after
\* its end time
C31_Witness ==
    /\ lastCall.op = "executeProposal"
    /\ lastCall.x = 0
    /\ Ok(lastCall)
    /\ proposals[0].executed
    /\ proposals[0].forVotes + proposals[0].againstVotes > 0
    /\ now > proposals[0].endTime

\* C32: a successful executeProposal sets the proposal's executed flag and
\* its passed flag (forVotes > againstVotes) and changes nothing else:
\* every other field of the proposal, every other proposal, the proposal
\* counter, balances, allowances, total supply, the cities, the global
\* index, the oracle address, the pause flag and the staking ledger are as
\* before, whatever the description
C32_ExecutionOnlyRecords ==
    [][(lastCall'.op = "executeProposal" /\ Ok(lastCall')) =>
          LET id == lastCall'.x
          IN  /\ proposals'[id].executed
              /\ proposals'[id].passed
                     = (proposals[id].forVotes > proposals[id].againstVotes)
              /\ proposals' = [proposals EXCEPT
                                  ![id].executed = proposals'[id].executed,
                                  ![id].passed = proposals'[id].passed]
              /\ UNCHANGED <<proposalCount, balances, allowances, totalSupply,
                             paused, cities, globalPriceIndex, oracleAddress,
                             lastUpdateTimestamp, stakingVars, now>>]_vars

\* A passed proposal worded "Pause the token" has just been executed while
\* the token is not paused, the oracle is set and a city price was updated
C32_Witness ==
    /\ lastCall.op = "executeProposal"
    /\ Ok(lastCall)
    /\ proposals[lastCall.x].description = "Pause the token"
    /\ proposals[lastCall.x].passed
    /\ ~paused
    /\ oracleAddress = "user2"
    /\ cities[0].priceIndex = 1300001

\* C33: updatePeriodMultiplier changes the multiplier table only (and only
\* when it succeeds): stake entries with their stored weights, the
\* accounts' governance weights and staked totals, the global totals and
\* the balances are as before; a later unstake subtracts the weight stored
\* in the entry, not the weight the current table would give, so no
\* account's governance weight ever drops below 0 and it is 0 when the
\* account has no active stake
C33_MultipliersNotRetroactive ==
    /\ [](\A u \in Accounts :
            /\ userGovernanceWeight[u] >= 0
            /\ (\A j \in DOMAIN userStakes[u] : ~userStakes[u][j].isActive)
                   => userGovernanceWeight[u] = 0)
    /\ [][/\ lastCall'.op = "updatePeriodMultiplier" =>
               /\ UNCHANGED <<userStakes, userGovernanceWeight,
                              userTotalStaked, totalStaked, totalStakers,
                              balances>>
               /\ \A p \in DOMAIN periodMultipliers :
                     periodMultipliers'[p] # periodMultipliers[p] =>
                        /\ Ok(lastCall')
                        /\ p = lastCall'.x
                        /\ periodMultipliers'[p] = lastCall'.y
          /\ (lastCall'.op = "unstake" /\ Ok(lastCall')) =>
               LET u == lastCall'.caller
                   st == userStakes[u][lastCall'.x + 1]
               IN  /\ st.governanceWeight <= userGovernanceWeight[u]
                   /\ userGovernanceWeight'[u]
                          = userGovernanceWeight[u] - st.governanceWeight
                   /\ userStakes'[u][lastCall'.x + 1].governanceWeight
                          = st.governanceWeight]_vars

\* user1 has withdrawn, by unstake, its only entry, staked at multiplier
\* 100 for 7 days, after the multiplier of that period was raised to 150:
\* the stored weight 1000 was subtracted and the account's weight is 0
C33_Witness ==
    /\ lastCall.op = "unstake"
    /\ Ok(lastCall)
    /\ lastCall.caller = "user1"
    /\ Len(userStakes["user1"]) = 1
    /\ userStakes["user1"][1].amount = 1000
    /\ userStakes["user1"][1].governanceWeight = 1000
    /\ periodMultipliers[7 * Day] = 150
    /\ userGovernanceWeight["user1"] = 0

\* The step withdraws entry j (1-based) of account u
WithdrawsEntry(u, j) ==
    /\ Ok(lastCall')
    /\ lastCall'.x = j - 1
    /\ \/ lastCall'.op = "unstake" /\ lastCall'.caller = u
       \/ lastCall'.op = "emergencyUnstake" /\ lastCall'.a1 = u

\* C34: an account's stake list never shrinks; it grows by one entry at
\* the end, and only by that account's successful stake; every existing
\* entry stays at its index with the same amount, stakingTime, lockPeriod
\* and governanceWeight; isActive never turns from false to true, and
\* turns from true to false only by the withdrawal of that entry
C34_StakeEntriesRetained ==
    [][\A u \in Accounts :
          LET old == userStakes[u]
              new == userStakes'[u]
          IN  /\ Len(new) >= Len(old)
              /\ Len(new) <= Len(old) + 1
              /\ Len(new) = Len(old) + 1 =>
                    /\ lastCall'.op = "stake"
                    /\ lastCall'.caller = u
                    /\ Ok(lastCall')
                    /\ new[Len(new)].isActive
                    /\ new[Len(new)].amount = lastCall'.x
                    /\ new[Len(new)].lockPeriod = lastCall'.y
                    /\ new[Len(new)].stakingTime = now
              /\ \A j \in DOMAIN old :
                    /\ new[j].amount = old[j].amount
                    /\ new[j].stakingTime = old[j].stakingTime
                    /\ new[j].lockPeriod = old[j].lockPeriod
                    /\ new[j].governanceWeight = old[j].governanceWeight
                    /\ new[j].isActive => old[j].isActive
                    /\ (old[j].isActive /\ ~new[j].isActive)
                          => WithdrawsEntry(u, j)]_vars

\* user1 has just staked a second entry after its first one was withdrawn:
\* the withdrawn entry is still at index 0
C34_Witness ==
    /\ lastCall.op = "stake"
    /\ Ok(lastCall)
    /\ lastCall.caller = "user1"
    /\ Len(userStakes["user1"]) = 2
    /\ ~userStakes["user1"][1].isActive
    /\ userStakes["user1"][1].amount = 1000
    /\ userStakes["user1"][2].isActive
    /\ userStakes["user1"][2].stakingTime
           >= userStakes["user1"][1].stakingTime
                  + userStakes["user1"][1].lockPeriod

\* On the current ledger, a vote, an execution or a query for an id that
\* createProposal has not returned fails with 'Invalid proposal' and
\* changes no proposal
UnknownRefusedCurrent ==
    (/\ lastCall'.op \in {"vote", "executeProposal", "getProposalInfo"}
     /\ lastCall'.x >= proposalCount)
       => /\ lastCall'.result = "Invalid proposal"
          /\ UNCHANGED <<proposals, proposalCount>>

\* The same on the time-gated variant, whose ids start at 1
UnknownRefusedGated ==
    (/\ lastCall'.op \in {"gatedVote", "getProposal"}
     /\ (lastCall'.x = 0 \/ lastCall'.x > proposalCounter))
       => /\ lastCall'.result = "GPRET: Invalid proposal ID"
          /\ UNCHANGED <<gatedProposals, proposalCounter>>

\* C35 (as claimed): vote, executeProposal and the proposal query, called
\* with an id that no successful createProposal has returned, always fail
\* with the unknown-proposal error, never with a timing error, and change
\* no proposal, tally or voted flag
C35_UnknownProposals ==
    [][UnknownRefusedCurrent /\ UnknownRefusedGated]_vars

\* The entries of the persisted history file, none when it is absent
PersistedHistory(file) ==
    IF file.state = "valid" THEN file.content ELSE <<>>

\* C36 (as claimed): after a cycle that completes, the history file holds
\* the entries it held before the cycle (less the oldest one when it was
\* full) followed by the cycle's summary, also when the cycle is the first
\* after a restart of the server
C36_PersistedHistoryAppendOnly ==
    [][(lastCall'.op = "collectAllPrices" /\ lastCall'.result = "ok"
            /\ historyFile.state # "corrupt") =>
          /\ historyFile'.state = "valid"
          /\ AppendedDroppingOldest(
                 PersistedHistory(historyFile), PersistedHistory(historyFile'),
                 [timestamp |-> lastResults'.timestamp,
                  globalIndex |-> lastResults'.globalIndex,
                  citiesCount |-> Len(lastResults'.cities)])]_vars

Surplus(bal, total) == bal[StakingAddr] - total

\* The tokens the step sends to the staking contract outside of stake
SentDirectly ==
    IF Ok(lastCall') /\ lastCall'.op = "transfer" /\ lastCall'.a1 = StakingAddr
        THEN lastCall'.x
    ELSE IF Ok(lastCall') /\ lastCall'.op = "transferFrom"
            /\ lastCall'.a2 = StakingAddr /\ lastCall'.a1 # StakingAddr
        THEN lastCall'.x
    ELSE 0

\* C38 - Staking solvency: the staking contract's balance never falls below
\* totalStaked, and totalStaked is the sum of the active entries; the
\* difference starts at 0 and changes only by the tokens sent to the contract
\* directly. Every step that lowers the contract's balance is a successful
\* unstake or emergencyUnstake of an entry that was active and is inactive
\* afterwards (and entries never become active again), it credits the amount
\* of that entry to the account in whose list the entry is, and changes no
\* other balance; entries enter a list only by that account's own stake.
C38_StakingSolvency ==
    /\ [](/\ balances[StakingAddr] >= totalStaked
          /\ totalStaked = SumOver([u \in Accounts |-> ActiveAmount(u)], Accounts)
          /\ \A h \in Holders : allowances[StakingAddr][h] = 0)
    /\ [][/\ Surplus(balances', totalStaked')
               = Surplus(balances, totalStaked) + SentDirectly
          /\ \A u \in Accounts :
                /\ Len(userStakes'[u]) > Len(userStakes[u]) =>
                      lastCall'.op = "stake" /\ lastCall'.caller = u
                /\ \A j \in DOMAIN userStakes[u] :
                      userStakes'[u][j].isActive => userStakes[u][j].isActive
          /\ balances'[StakingAddr] < balances[StakingAddr] =>
                \E u \in Accounts : \E j \in DOMAIN userStakes[u] :
                    /\ WithdrawsEntry(u, j)
                    /\ userStakes[u][j].isActive
                    /\ ~userStakes'[u][j].isActive
                    /\ balances' = MoveTokens(balances, StakingAddr, u,
                                              userStakes[u][j].amount)]_vars

\* The owner has withdrawn user1's stake in an emergency: user1 holds its
\* tokens again, the owner's own stake is still covered, and the contract
\* holds a donation on top
C38_Witness ==
    /\ lastCall.op = "emergencyUnstake" /\ lastCall.caller = Owner
    /\ lastCall.a1 = "user1" /\ Ok(lastCall)
    /\ totalStaked = 1000
    /\ balances[StakingAddr] = 1500
    /\ balances["user1"] = 500
    /\ balances[Owner] = TOTAL_SUPPLY - 2000

\* The step is a call of the named operation
Calls(op) == lastCall'.op = op

\* C39 - Pause scope: while the token is paused no balance changes, yet
\* createProposal, vote, executeProposal, setOracleAddress, updateCityPrice,
\* updateCityWeight and toggleCityStatus succeed whenever their own
\* preconditions hold; stake and unstake fail and change nothing, with the
\* token's pause error once their own checks and the allowance check pass,
\* so a matured active stake stays in the contract; with the token unpaused
\* the unstake of a matured active stake succeeds.
C39_PauseScope ==
    [][LET c == lastCall'.caller
           x == lastCall'.x
       IN
       /\ paused =>
            /\ balances' = balances
            /\ (Calls("createProposal") /\ balances[c] >= PROPOSAL_THRESHOLD
                    /\ x = 1) => Ok(lastCall')
            /\ (VoteOn(x) /\ now >= proposals[x].startTime
                    /\ now <= proposals[x].endTime
                    /\ c \notin proposals[x].hasVoted
                    /\ balances[c] > 0) =>
                  Ok(lastCall') /\ c \in proposals'[x].hasVoted
            /\ (Calls("executeProposal") /\ x < proposalCount
                    /\ now > proposals[x].endTime /\ ~proposals[x].executed) =>
                  Ok(lastCall') /\ proposals'[x].executed
            /\ (Calls("setOracleAddress") /\ c = Owner
                    /\ lastCall'.a1 # NoAddr) =>
                  Ok(lastCall') /\ oracleAddress' = lastCall'.a1
            /\ (Calls("updateCityPrice") /\ c = oracleAddress /\ x < cityCount
                    /\ cities[x].isActive /\ lastCall'.y > 0) =>
                  Ok(lastCall') /\ cities'[x].priceIndex = lastCall'.y
            /\ (Calls("updateCityWeight") /\ c = Owner /\ x < cityCount
                    /\ lastCall'.y > 0) =>
                  Ok(lastCall') /\ cities'[x].weight = lastCall'.y
            /\ (Calls("toggleCityStatus") /\ c = Owner /\ x < cityCount) =>
                  Ok(lastCall') /\ cities'[x].isActive = ~cities[x].isActive
            /\ (Calls("stake") \/ Calls("unstake")) =>
                  /\ ~Ok(lastCall')
                  /\ UNCHANGED <<stakingVars, allowances>>
            /\ (Calls("stake") /\ ~stakingPaused /\ x > 0
                    /\ periodMultipliers[lastCall'.y] > 0
                    /\ allowances[c][StakingAddr] >= x) =>
                  lastCall'.result = "EnforcedPause"
            /\ (Calls("unstake") /\ x < Len(userStakes[c])
                    /\ StakeAt(c, x).isActive /\ LockExpired(StakeAt(c, x))) =>
                  lastCall'.result = "EnforcedPause"
       /\ (~paused /\ Calls("unstake") /\ x < Len(userStakes[c])
               /\ StakeAt(c, x).isActive /\ LockExpired(StakeAt(c, x))) =>
             /\ Ok(lastCall')
             /\ balances'[c] = balances[c] + StakeAt(c, x).amount]_vars

\* The token is paused, user1's vote is recorded, and the unstake of its
\* matured stake has just been refused with the token's pause error
C39_Witness ==
    /\ paused
    /\ lastCall.op = "unstake" /\ lastCall.caller = "user1"
    /\ lastCall.result = "EnforcedPause"
    /\ LockExpired(StakeAt("user1", 0)) /\ StakeAt("user1", 0).isActive
    /\ balances[StakingAddr] = 1000
    /\ proposals[0].hasVoted = {"user1"}

\* The entries of a history are in non-decreasing timestamp order
TimestampOrdered(h) ==
    \A j \in 1 .. Len(h) - 1 : h[j].timestamp <= h[j + 1].timestamp

\* A published snapshot is never replaced by one of an older cycle
LatestNeverOlder ==
    [][(latestFile.state = "valid" /\ latestFile'.state = "valid") =>
          latestFile'.content.timestamp >= latestFile.content.timestamp]_vars

\* After a completed cycle the last history entry is the published snapshot's
LastEntryIsLatest ==
    [][(lastCall'.op = "collectAllPrices" /\ lastCall'.result = "ok") =>
          LET h == PersistedHistory(historyFile') IN
          /\ latestFile'.state = "valid"
          /\ Len(h) > 0
          /\ h[Len(h)].timestamp = latestFile'.content.timestamp
          /\ h[Len(h)].globalIndex = latestFile'.content.globalIndex]_vars

HistoryOrdered ==
    [](TimestampOrdered(priceHistory)
          /\ TimestampOrdered(PersistedHistory(historyFile)))

\* C40 (as claimed): under every interleaving of scheduled and manual
\* cycles the published snapshot is never replaced by one with an older
\* cycle timestamp, the history is in non-decreasing timestamp order, and
\* after every completed cycle the last history entry carries the timestamp
\* and the globalIndex of the published snapshot
C40_SnapshotOrdering ==
    LatestNeverOlder /\ HistoryOrdered /\ LastEntryIsLatest
====
